---- MODULE Spec2Model ----
(***************************************************************************)
(* A state-machine model of the Oberon RISC emulator core:                 *)
(*   - the SPI block device of src/src/disk.c (struct Disk, disk_write,    *)
(*     disk_read, disk_run_command and the sector file behind them);       *)
(*   - the CPU interpreter of src/src/risc.c (struct RISC,                 *)
(*     risc_single_step and the RAM load/store helpers).                   *)
(* Machine words are 32 bits wide; every C expression on uint32_t is taken *)
(* modulo 2^32.  The build modelled is LP64 (long has 64 bits), so the     *)
(* 32-bit product secnum * 512 reaches fseek unchanged.                    *)
(***************************************************************************)
EXTENDS Integers, Sequences, FiniteSets, TLC

VARIABLES
  disk,      \* struct Disk, with the backing FILE (contents and position) in disk.file
  image,     \* the image file handed to disk_new ("none" when the filename is NULL)
  queue,     \* SPI master: the values it has committed to write next
  sending,   \* SPI master: what the queue holds (a command, a data block), or NoSend
  ncmd,      \* SPI master: commands started so far
  lastCmd,   \* the last command the disk has run: [cmd, arg], or NoCmd
  nwr,       \* disk_write calls since that command was run
  lastWrite, \* the last complete write transaction: [arg, seed], or NoWrite
  risc,      \* struct RISC
  nsteps,    \* risc_single_step calls so far
  last,      \* the last CPU operation: which, the instruction it ran, the state before
  entry,     \* PC and condition codes at the latest interrupt entry
  lastStore, \* the latest store instruction: its address, width and value
  run,       \* the risc_run call in progress: its cycles and its loop counter i
  nruns,     \* risc_run calls so far
  io,        \* the memory access of the latest step of risc_run
  pending,   \* what was stored since the previous damage read-out
  readout,   \* the latest damage read-out: the rectangle, and pending as it was
  keys,      \* the keyboard bytes offered, accepted and read so far
  hw,        \* the latest request to the hardware enumerator and the words read since
  hostfs,    \* struct HostFS, with the directory stream in hostfs.stream and hostfs.pos
  hdir,      \* the host directory: its files in iteration order, each with its inode
  fsop,      \* the latest host-FS request and what it left in the request block
  listing,   \* the enumeration in progress: what it should list, what it has returned
  nfs        \* host-FS requests so far

diskVars == <<disk, image, queue, sending, ncmd, lastCmd, nwr, lastWrite>>
hostVars == <<run, nruns, io, pending, readout, keys, hw>>
cpuVars  == <<risc, nsteps, last, entry, lastStore, run, nruns, io, pending, readout, keys,
             hw>>
fsVars   == <<hostfs, hdir, fsop, listing, nfs>>
vars     == <<disk, image, queue, sending, ncmd, lastCmd, nwr, lastWrite,
              risc, nsteps, last, entry, lastStore, run, nruns, io, pending, readout, keys, hw,
              hostfs, hdir, fsop, listing, nfs>>

NoCmd   == [cmd |-> -1, arg |-> 0]      \* lastCmd before any command has run
NoWrite == [arg |-> 0, seed |-> -1]     \* lastWrite when no write transaction stands
NoSend  == [cmd |-> -1, arg |-> 0, seed |-> -1, lead |-> -1]  \* sending when the queue is empty

(***************************************************************************)
(* 32-bit words.  A uint32_t is held as the integer of the same bit        *)
(* pattern in -2^31 .. 2^31 - 1 (its int32_t reading), so that every word  *)
(* fits the model checker's integers; Hi and Lo are its 16-bit halves, and *)
(* every operation is computed on the halves and taken modulo 2^32.        *)
(***************************************************************************)
H16 == 256 * 256
MaxInt32 == 2147483646 + 1
MinInt32 == -2147483647 - 1

Hi(x) == (x \div H16) % H16
Lo(x) == x % H16
Mk(h, l) == (IF h >= 32768 THEN h - H16 ELSE h) * H16 + l   \* the word h:l

U8(x)  == x % 256                                   \* (uint8_t)x
Neg(x) == x < 0                                     \* bit 31, (int32_t)x < 0

Add32(x, y) ==                                      \* x + y
  LET l == Lo(x) + Lo(y)
  IN Mk((Hi(x) + Hi(y) + l \div H16) % H16, l % H16)

Sub32(x, y) ==                                      \* x - y
  LET l == Lo(x) - Lo(y)
  IN Mk((Hi(x) - Hi(y) + l \div H16) % H16, l % H16)

ULt(x, y) == IF Neg(x) = Neg(y) THEN x < y ELSE Neg(y)   \* x < y on uint32_t

Shl(x, n) ==                                        \* x << n, 0 <= n <= 31
  IF n >= 16 THEN Mk((Lo(x) * (2 ^ (n - 16))) % H16, 0)
  ELSE LET l == Lo(x) * (2 ^ n)
       IN Mk((Hi(x) * (2 ^ n) + l \div H16) % H16, l % H16)

Shr(x, n) ==                                        \* x >> n on uint32_t, 0 <= n <= 31
  IF n >= 16 THEN Mk(0, Hi(x) \div (2 ^ (n - 16)))
  ELSE Mk(Hi(x) \div (2 ^ n),
          (Lo(x) \div (2 ^ n) + (Hi(x) % (2 ^ n)) * (2 ^ (16 - n))) % H16)

Asr(x, n) ==                                        \* (int32_t)x >> n, 0 <= n <= 31
  IF n = 31 THEN (IF Neg(x) THEN -1 ELSE 0) ELSE x \div (2 ^ n)

RECURSIVE And16(_, _)
And16(x, y) ==
  IF x = 0 \/ y = 0 THEN 0
  ELSE 2 * And16(x \div 2, y \div 2) + (IF x % 2 = 1 /\ y % 2 = 1 THEN 1 ELSE 0)

RECURSIVE Or16(_, _)
Or16(x, y) ==
  IF x = 0 THEN y ELSE IF y = 0 THEN x
  ELSE 2 * Or16(x \div 2, y \div 2) + (IF x % 2 = 1 \/ y % 2 = 1 THEN 1 ELSE 0)

RECURSIVE Xor16(_, _)
Xor16(x, y) ==
  IF x = 0 THEN y ELSE IF y = 0 THEN x
  ELSE 2 * Xor16(x \div 2, y \div 2) + (IF x % 2 # y % 2 THEN 1 ELSE 0)

BitAnd(x, y) == Mk(And16(Hi(x), Hi(y)), And16(Lo(x), Lo(y)))   \* x & y
BitOr(x, y)  == Mk(Or16(Hi(x), Hi(y)), Or16(Lo(x), Lo(y)))     \* x | y
BitXor(x, y) == Mk(Xor16(Hi(x), Hi(y)), Xor16(Lo(x), Lo(y)))   \* x ^ y
BitNot(x)    == -1 - x                                          \* ~x

(***************************************************************************)
(* disk.c: the sector file                                                 *)
(***************************************************************************)
SectorBytes == 512
SectorWords == 128
TxWords     == SectorWords + 2
FsMagic     == Mk(39710, 41869)        \* 0x9B1EA38D
FsOffset    == 524290                  \* 0x80002
SeekMod     == 8388608                 \* 2^32 / 512: sectors a 32-bit byte offset reaches

ZeroBytes == [i \in 0 .. SectorBytes - 1 |-> 0]

\* A FILE: open is FALSE for a NULL pointer; data maps the sectors that hold
\* bytes to their 512 bytes (every other sector reads as zeros or lies past
\* the end of the file); pos is the file position, which is always a multiple
\* of 512 here and is counted in sectors.
NoFile == [open |-> FALSE, data |-> <<>>, pos |-> 0]

FileEnd(f) ==
  IF DOMAIN f.data = {} THEN 0
  ELSE 1 + CHOOSE s \in DOMAIN f.data : \A t \in DOMAIN f.data : t <= s

\* fseek(f, secnum * 512, SEEK_SET): the product is a uint32_t, so the byte
\* offset is (secnum * 512) mod 2^32 = 512 * (secnum mod 2^23)
seek_sector(f, secnum) ==
  IF f.open THEN [f EXCEPT !.pos = secnum % SeekMod] ELSE f

\* bytes[512] = {0}; fread(bytes, 512, 1, f); the words are assembled
\* little-endian (the four shifted bytes do not overlap)
read_sector(f) ==
  LET bytes == IF f.open /\ f.pos \in DOMAIN f.data THEN f.data[f.pos] ELSE ZeroBytes
      buf   == [i \in 0 .. SectorWords - 1 |->
                  BitOr(BitOr(bytes[i * 4], Shl(bytes[i * 4 + 1], 8)),
                        BitOr(Shl(bytes[i * 4 + 2], 16), Shl(bytes[i * 4 + 3], 24)))]
      f2    == IF f.open /\ f.pos < FileEnd(f) THEN [f EXCEPT !.pos = @ + 1] ELSE f
  IN [file |-> f2, buf |-> buf]

\* write_sector with the bytes of each word stored most significant first
write_sector_bigendian(f, buf) ==
  IF f.open THEN
    LET bytes == [j \in 0 .. SectorBytes - 1 |-> U8(Shr(buf[j \div 4], 8 * (3 - (j % 4))))]
    IN [f EXCEPT !.data = (f.pos :> bytes) @@ @, !.pos = @ + 1]
  ELSE f

\* the words are taken apart little-endian; fwrite(bytes, 512, 1, f)
write_sector(f, buf) ==
  IF f.open THEN
    LET bytes == [j \in 0 .. SectorBytes - 1 |-> U8(Shr(buf[j \div 4], 8 * (j % 4)))]
    IN [f EXCEPT !.data = (f.pos :> bytes) @@ @, !.pos = @ + 1]
  ELSE f

(***************************************************************************)
(* The image files disk_new is given                                       *)
(***************************************************************************)
PatternBytes(seed) ==
  [j \in 0 .. SectorBytes - 1 |->
     LET i == j \div 4
     IN CASE j % 4 = 0 -> (seed + i) % 256
          [] j % 4 = 1 -> (7 * i + 1) % 256
          [] j % 4 = 2 -> seed % 256
          [] OTHER     -> 255 - i]

\* first bytes 8D A3 1E 9B: the little-endian magic of a filesystem-only image
MagicSector ==
  [j \in 0 .. SectorBytes - 1 |->
     IF j < 4 THEN <<141, 163, 30, 155>>[j + 1] ELSE PatternBytes(68)[j]]

\* first bytes 9B 1E A3 8D: the magic in the wrong byte order, a full-disk image
PlainSector ==
  [j \in 0 .. SectorBytes - 1 |->
     IF j < 4 THEN <<155, 30, 163, 141>>[j + 1] ELSE PatternBytes(17)[j]]

Images == {"none", "plain", "fs"}
ImageData(filename) ==
  IF filename = "plain" THEN (0 :> PlainSector) @@ (FsOffset :> PatternBytes(34))
  ELSE (0 :> MagicSector) @@ (FsOffset :> PatternBytes(51))

(***************************************************************************)
(* disk.c: struct Disk and its SPI operations                              *)
(***************************************************************************)
\* disk_new without the check for a filesystem-only image
disk_new_nobias(filename) ==
  LET d0 == [state |-> "Command", file |-> NoFile, offset |-> 0,
             rx_buf |-> [i \in 0 .. SectorWords - 1 |-> 0], rx_idx |-> 0,
             tx_buf |-> [i \in 0 .. TxWords - 1 |-> 0], tx_cnt |-> 0, tx_idx |-> 0]
  IN IF filename = "none" THEN d0
     ELSE LET r == read_sector([open |-> TRUE, data |-> ImageData(filename), pos |-> 0])
          IN [d0 EXCEPT !.file = r.file,
                        !.tx_buf = [i \in 0 .. TxWords - 1 |->
                                      IF i < SectorWords THEN r.buf[i] ELSE 0]]

disk_new(filename) ==
  LET d0 == [state |-> "Command", file |-> NoFile, offset |-> 0,
             rx_buf |-> [i \in 0 .. SectorWords - 1 |-> 0], rx_idx |-> 0,
             tx_buf |-> [i \in 0 .. TxWords - 1 |-> 0], tx_cnt |-> 0, tx_idx |-> 0]
  IN IF filename = "none" THEN d0
     ELSE LET r  == read_sector([open |-> TRUE, data |-> ImageData(filename), pos |-> 0])
              tx == [i \in 0 .. TxWords - 1 |->
                       IF i < SectorWords THEN r.buf[i] ELSE 0]
          IN [d0 EXCEPT !.file = r.file, !.tx_buf = tx,
                        !.offset = IF tx[0] = FsMagic THEN FsOffset ELSE 0]

disk_run_command(d) ==
  LET cmd == d.rx_buf[0]
      arg == BitOr(BitOr(Shl(d.rx_buf[1], 24), Shl(d.rx_buf[2], 16)),
                   BitOr(Shl(d.rx_buf[3], 8), d.rx_buf[4]))
      d1  ==
        CASE cmd = 81 ->
               LET r == read_sector(seek_sector(d.file, Sub32(arg, d.offset)))
               IN [d EXCEPT !.state = "Read", !.file = r.file, !.tx_cnt = 2 + SectorWords,
                     !.tx_buf = [i \in 0 .. TxWords - 1 |->
                                   IF i = 0 THEN 0 ELSE IF i = 1 THEN 254 ELSE r.buf[i - 2]]]
          [] cmd = 88 ->
               [d EXCEPT !.state = "Write", !.file = seek_sector(d.file, Sub32(arg, d.offset)),
                         !.tx_buf[0] = 0, !.tx_cnt = 1]
          [] OTHER ->
               [d EXCEPT !.tx_buf[0] = 0, !.tx_cnt = 1]
  IN [d1 EXCEPT !.tx_idx = -1]

\* disk_write that passes over every 0xFF of the Command phase
disk_write_skipall(d0, value) ==
  LET d == [d0 EXCEPT !.tx_idx = @ + 1]
  IN CASE d.state = "Command" ->
            IF U8(value) # 255 THEN
              LET d1 == [d EXCEPT !.rx_buf[d.rx_idx] = value, !.rx_idx = @ + 1]
              IN IF d1.rx_idx = 6
                 THEN [disk_run_command(d1) EXCEPT !.rx_idx = 0]
                 ELSE d1
            ELSE d
       [] d.state = "Read" ->
            IF d.tx_idx = d.tx_cnt
            THEN [d EXCEPT !.state = "Command", !.tx_cnt = 0, !.tx_idx = 0]
            ELSE d
       [] d.state = "Write" ->
            IF value = 254 THEN [d EXCEPT !.state = "Writing"] ELSE d
       [] d.state = "Writing" ->
            LET d1 == IF d.rx_idx < 128 THEN [d EXCEPT !.rx_buf[d.rx_idx] = value] ELSE d
                d2 == [d1 EXCEPT !.rx_idx = @ + 1]
                d3 == IF d2.rx_idx = 128
                      THEN [d2 EXCEPT !.file = write_sector(d2.file, d2.rx_buf)] ELSE d2
            IN IF d3.rx_idx = 130
               THEN [d3 EXCEPT !.tx_buf[0] = 5, !.tx_cnt = 1, !.tx_idx = -1,
                               !.rx_idx = 0, !.state = "Command"]
               ELSE d3

\* disk_write that takes the byte that ends the Read phase as a command byte
disk_write_eager(d0, value) ==
  LET d == [d0 EXCEPT !.tx_idx = @ + 1]
  IN CASE d.state = "Command" ->
            IF U8(value) # 255 \/ d.rx_idx # 0 THEN
              LET d1 == [d EXCEPT !.rx_buf[d.rx_idx] = value, !.rx_idx = @ + 1]
              IN IF d1.rx_idx = 6
                 THEN [disk_run_command(d1) EXCEPT !.rx_idx = 0]
                 ELSE d1
            ELSE d
       [] d.state = "Read" ->
            IF d.tx_idx = d.tx_cnt
            THEN IF U8(value) # 255
                 THEN [d EXCEPT !.state = "Command", !.tx_cnt = 0, !.tx_idx = 0,
                                !.rx_buf[0] = value, !.rx_idx = 1]
                 ELSE [d EXCEPT !.state = "Command", !.tx_cnt = 0, !.tx_idx = 0]
            ELSE d
       [] d.state = "Write" ->
            IF value = 254 THEN [d EXCEPT !.state = "Writing"] ELSE d
       [] d.state = "Writing" ->
            LET d1 == IF d.rx_idx < 128 THEN [d EXCEPT !.rx_buf[d.rx_idx] = value] ELSE d
                d2 == [d1 EXCEPT !.rx_idx = @ + 1]
                d3 == IF d2.rx_idx = 128
                      THEN [d2 EXCEPT !.file = write_sector(d2.file, d2.rx_buf)] ELSE d2
            IN IF d3.rx_idx = 130
               THEN [d3 EXCEPT !.tx_buf[0] = 5, !.tx_cnt = 1, !.tx_idx = -1,
                               !.rx_idx = 0, !.state = "Command"]
               ELSE d3

\* disk_write that leaves rx_idx where it is after the command has run
disk_write_noreset(d0, value) ==
  LET d == [d0 EXCEPT !.tx_idx = @ + 1]
  IN CASE d.state = "Command" ->
            IF U8(value) # 255 \/ d.rx_idx # 0 THEN
              LET d1 == [d EXCEPT !.rx_buf[d.rx_idx] = value, !.rx_idx = @ + 1]
              IN IF d1.rx_idx = 6
                 THEN disk_run_command(d1)
                 ELSE d1
            ELSE d
       [] d.state = "Read" ->
            IF d.tx_idx = d.tx_cnt
            THEN [d EXCEPT !.state = "Command", !.tx_cnt = 0, !.tx_idx = 0]
            ELSE d
       [] d.state = "Write" ->
            IF value = 254 THEN [d EXCEPT !.state = "Writing"] ELSE d
       [] d.state = "Writing" ->
            LET d1 == IF d.rx_idx < 128 THEN [d EXCEPT !.rx_buf[d.rx_idx] = value] ELSE d
                d2 == [d1 EXCEPT !.rx_idx = @ + 1]
                d3 == IF d2.rx_idx = 128
                      THEN [d2 EXCEPT !.file = write_sector(d2.file, d2.rx_buf)] ELSE d2
            IN IF d3.rx_idx = 130
               THEN [d3 EXCEPT !.tx_buf[0] = 5, !.tx_cnt = 1, !.tx_idx = -1,
                               !.rx_idx = 0, !.state = "Command"]
               ELSE d3

disk_write(d0, value) ==
  LET d == [d0 EXCEPT !.tx_idx = @ + 1]
  IN CASE d.state = "Command" ->
            IF U8(value) # 255 \/ d.rx_idx # 0 THEN
              LET d1 == [d EXCEPT !.rx_buf[d.rx_idx] = value, !.rx_idx = @ + 1]
              IN IF d1.rx_idx = 6
                 THEN [disk_run_command(d1) EXCEPT !.rx_idx = 0]
                 ELSE d1
            ELSE d
       [] d.state = "Read" ->
            IF d.tx_idx = d.tx_cnt
            THEN [d EXCEPT !.state = "Command", !.tx_cnt = 0, !.tx_idx = 0]
            ELSE d
       [] d.state = "Write" ->
            IF value = 254 THEN [d EXCEPT !.state = "Writing"] ELSE d
       [] d.state = "Writing" ->
            LET d1 == IF d.rx_idx < 128 THEN [d EXCEPT !.rx_buf[d.rx_idx] = value] ELSE d
                d2 == [d1 EXCEPT !.rx_idx = @ + 1]
                d3 == IF d2.rx_idx = 128
                      THEN [d2 EXCEPT !.file = write_sector(d2.file, d2.rx_buf)] ELSE d2
            IN IF d3.rx_idx = 130
               THEN [d3 EXCEPT !.tx_buf[0] = 5, !.tx_cnt = 1, !.tx_idx = -1,
                               !.rx_idx = 0, !.state = "Command"]
               ELSE d3

\* disk_read with the upper bound of the index test off by one
disk_read_inclusive(d) ==
  IF d.tx_idx >= 0 /\ d.tx_idx <= d.tx_cnt THEN d.tx_buf[d.tx_idx] ELSE 255

disk_read(d) ==
  IF d.tx_idx >= 0 /\ d.tx_idx < d.tx_cnt THEN d.tx_buf[d.tx_idx] ELSE 255

(***************************************************************************)
(* The SPI master (the guest's SD-card driver) and the images it is given  *)
(***************************************************************************)
MaxCmds == 2       \* commands the master issues in one run
MaxIdle == 1       \* idle 0xFF clocks beyond the armed response

Block(seed) == [i \in 0 .. SectorWords - 1 |-> Mk(seed * 256 + i, i * 257 + seed)]
BlockSeeds  == {165, 90}
Cmds        == {81, 88, 0}
Args        == {0, FsOffset, 8388608}       \* 0, 0x80002, 0x800000
CrcFor(arg) == IF arg = 0 THEN 0 ELSE 255   \* the sixth byte of a command

CommandBytes(cmd, arg) ==
  <<cmd, U8(Shr(arg, 24)), U8(Shr(arg, 16)), U8(Shr(arg, 8)), U8(arg), CrcFor(arg)>>

BlockWords(seed) == <<254>> \o [i \in 1 .. SectorWords |-> Block(seed)[i - 1]] \o <<255, 255>>

DiskInit ==
  /\ image \in Images
  /\ disk = disk_new(image)
  /\ queue = <<>>
  /\ sending = NoSend
  /\ ncmd = 0
  /\ lastCmd = NoCmd
  /\ nwr = 0
  /\ lastWrite = NoWrite

\* The master commits to the six bytes of a command.
StartCommand(cmd, arg) ==
  /\ queue = <<>>
  /\ ncmd < MaxCmds
  /\ disk.state = "Command" /\ disk.rx_idx = 0
  /\ queue' = CommandBytes(cmd, arg)
  /\ sending' = [cmd |-> cmd, arg |-> arg, seed |-> -1, lead |-> -1]
  /\ ncmd' = ncmd + 1
  /\ UNCHANGED <<disk, image, lastCmd, nwr, lastWrite>>
  /\ UNCHANGED <<cpuVars, fsVars>>

\* The master sends a command straight after the last word of a read response,
\* with one byte (lead) ahead of its six.
LeadBytes == {0, 88}
StartAfterRead(lead, cmd) ==
  /\ queue = <<>>
  /\ ncmd < MaxCmds
  /\ disk.state = "Read" /\ disk.tx_idx = disk.tx_cnt - 1
  /\ queue' = << lead >> \o CommandBytes(cmd, 0)
  /\ sending' = [cmd |-> cmd, arg |-> 0, seed |-> -1, lead |-> lead]
  /\ ncmd' = ncmd + 1
  /\ UNCHANGED <<disk, image, lastCmd, nwr, lastWrite>>
  /\ UNCHANGED <<cpuVars, fsVars>>

\* After a write command: the start token, 128 data words and two CRC words.
StartBlock(seed) ==
  /\ queue = <<>>
  /\ disk.state = "Write"
  /\ queue' = BlockWords(seed)
  /\ sending' = [cmd |-> -1, arg |-> 0, seed |-> seed, lead |-> -1]
  /\ UNCHANGED <<disk, image, ncmd, lastCmd, nwr, lastWrite>>
  /\ UNCHANGED <<cpuVars, fsVars>>

\* One call of disk_write(value), with the master's bookkeeping.
Transfer(value) ==
  LET runs   == disk.state = "Command" /\ disk.rx_idx = 5
      stored == disk.state = "Writing" /\ disk.rx_idx = 129
  IN /\ disk' = disk_write(disk, value)
     /\ lastCmd' = IF runs THEN [cmd |-> sending.cmd, arg |-> sending.arg] ELSE lastCmd
     /\ nwr' = IF runs THEN 0 ELSE nwr + 1
     /\ lastWrite' = IF runs /\ sending.cmd = 88 THEN NoWrite
                     ELSE IF stored THEN [arg |-> lastCmd.arg, seed |-> sending.seed]
                     ELSE lastWrite
     /\ UNCHANGED <<image, ncmd>>
     /\ UNCHANGED <<cpuVars, fsVars>>

\* The master writes the next value of its queue.
SpiWrite ==
  /\ queue # <<>>
  /\ Transfer(Head(queue))
  /\ queue' = Tail(queue)
  /\ sending' = IF Len(queue) = 1 THEN NoSend ELSE sending

\* The master clocks an idle 0xFF, as it does to take a response.
SpiIdle ==
  /\ queue = <<>>
  /\ disk.state = "Read" \/ disk.tx_idx < disk.tx_cnt + MaxIdle
  /\ Transfer(255)
  /\ UNCHANGED <<queue, sending>>

DiskNext ==
  \/ \E cmd \in Cmds, arg \in Args : StartCommand(cmd, arg)
  \/ \E seed \in BlockSeeds : StartBlock(seed)
  \/ \E lead \in LeadBytes, cmd \in Cmds : StartAfterRead(lead, cmd)
  \/ SpiWrite
  \/ SpiIdle

(***************************************************************************)
(* risc.c: struct RISC.  RAM, ROM and Palette are held sparsely: a word    *)
(* that was never written reads as 0 (calloc).  A device pointer is held   *)
(* as the flag "a device is attached"; the ports below take the branch of  *)
(* a NULL device for the devices whose side this module does not model.    *)
(* modes is the list up to its terminator (the entry of width 0), and      *)
(* current_mode the entry pointed at.                                      *)
(***************************************************************************)
DefaultMemSize          == 1048576     \* 0x00100000
DefaultDisplayStart     == 950016      \* 0x000E7F00
ROMStart                == -2048       \* 0xFFFFF800
ROMWords                == 512
KeyBufSize              == 16          \* sizeof(risc->key_buf)
IOStart                 == -64         \* 0xFFFFFFC0
PaletteStart            == -1280       \* 0xFFFFFB00
RISC_FRAMEBUFFER_WIDTH  == 1024
RISC_FRAMEBUFFER_HEIGHT == 768

MOV == 0
LSL == 1
ASR == 2
ROR == 3
AND == 4
ANN == 5
IOR == 6
XOR == 7
ADD == 8
SUB == 9
MUL == 10
DIV == 11
FAD == 12
FSB == 13
FML == 14
FDV == 15

RamAt(r, i) == IF i \in DOMAIN r.RAM THEN r.RAM[i] ELSE 0          \* risc->RAM[i]
RomAt(r, i) == IF i \in DOMAIN r.ROM THEN r.ROM[i] ELSE 0          \* risc->ROM[i]
PalAt(r, i) == IF i \in DOMAIN r.Palette THEN r.Palette[i] ELSE 0  \* risc->Palette[i]

\* the instruction fields
pbit(ir) == Neg(ir)
qbit(ir) == (Hi(ir) \div 16384) % 2 = 1
ubit(ir) == (Hi(ir) \div 8192) % 2 = 1
vbit(ir) == (Hi(ir) \div 4096) % 2 = 1
RegA(ir) == (Hi(ir) \div 256) % 16
RegB(ir) == (Hi(ir) \div 16) % 16
OpOf(ir) == Hi(ir) % 16
ImOf(ir) == Lo(ir)
RegC(ir) == Lo(ir) % 16
\* off = ir & 0x000FFFFF; off = (off ^ 0x00080000) - 0x00080000
MemOff(ir) ==
  LET off == (Hi(ir) % 16) * H16 + Lo(ir)
  IN IF off >= 524288 THEN off - 1048576 ELSE off
\* off = ir & 0x00FFFFFF; off = (off ^ 0x00800000) - 0x00800000
BranchOff(ir) ==
  LET off == (Hi(ir) % 256) * H16 + Lo(ir)
  IN IF off >= 8388608 THEN off - 16777216 ELSE off

\* the ROM image: risc-boot.inc is not part of the sources at hand; the two
\* words stand for a loader that ends by branching to address 0
bootloader ==
  (0 :> Mk(16384, 0)) @@ (1 :> Mk(32768 + 16384 + 1792, 0))

\* a reset that clears the registers as well
risc_reset_registers(r) == [r EXCEPT !.PC = Shr(ROMStart, 2), !.R = [i \in 0 .. 15 |-> 0]]

\* a reset that leaves interrupt mode as well
risc_reset_interrupts(r) == [r EXCEPT !.PC = Shr(ROMStart, 2), !.I = FALSE]

risc_reset(r) == [r EXCEPT !.PC = Shr(ROMStart, 2)]

DefaultMode ==
  [index |-> 0, width |-> RISC_FRAMEBUFFER_WIDTH, height |-> RISC_FRAMEBUFFER_HEIGHT,
   depth |-> 1]

\* the clock word risc_new packs from the host's local time: 2026-11-05 12:34:56
InitialClock == ((((26 * 16 + 11) * 32 + 5) * 32 + 12) * 64 + 34) * 64 + 56

FullDamage(span, height) == [x1 |-> 0, y1 |-> 0, x2 |-> span - 1, y2 |-> height - 1]

risc_new ==
  risc_reset(
    [PC |-> 0, R |-> [i \in 0 .. 15 |-> 0], H |-> 0, SPC |-> 0,
     SZ |-> FALSE, SN |-> FALSE, SC |-> FALSE, SV |-> FALSE,
     Z |-> FALSE, N |-> FALSE, C |-> FALSE, V |-> FALSE,
     I |-> FALSE, E |-> FALSE, P |-> FALSE,
     mem_size |-> DefaultMemSize, display_start |-> DefaultDisplayStart,
     progress |-> 0, current_tick |-> 0, mouse |-> 0, key_buf |-> <<>>,
     switches |-> 0, spi_selected |-> 0,
     current_mode |-> DefaultMode,
     current_mode_span |-> RISC_FRAMEBUFFER_WIDTH \div 32,
     damage |-> [x1 |-> 0, y1 |-> 0, x2 |-> (RISC_FRAMEBUFFER_WIDTH \div 32) - 1,
                 y2 |-> RISC_FRAMEBUFFER_HEIGHT - 1],
     hwenum_buf |-> <<>>, hwenum_idx |-> 0,
     RAM |-> <<>>, ROM |-> bootloader, Palette |-> <<>>,
     modes |-> << DefaultMode >>,
     dyn_mode_slots |-> << DefaultMode, [index |-> -1, width |-> 0, height |-> 0, depth |-> 0] >>,
     modes_by_depth |-> <<0, 0, 0>>,
     screen_dynsize |-> FALSE, screen_seamless |-> FALSE,
     leds |-> FALSE, serial |-> FALSE, spi |-> [i \in 0 .. 3 |-> "none"],
     clipboard |-> FALSE, hostfs |-> FALSE, hosttransfer |-> FALSE,
     initial_clock |-> InitialClock])

\* default_palette, and the palette an 8-bit mode is given on top of it
default_palette ==
  <<16777215, 16711680, 65280, 255, 16711935, 16776960, 65535, 11141120,
    39424, 154, 707571, 33410, 9079434, 12500670, 14671839, 0>>

ConfiguredPalette(max_depth) ==
  [i \in 0 .. 15 |-> default_palette[i + 1]] @@
  (IF max_depth = 8
   THEN [i \in 16 .. 39 |-> (i - 15) * 10 * 65793] @@
        [pos \in 40 .. 255 |->
           ((pos - 40) \div 36) * 3342336 + (((pos - 40) \div 6) % 6) * 13056
             + ((pos - 40) % 6) * 51]
   ELSE <<>>)

RECURSIVE MaxOver(_, _, _)
MaxOver(f, i, start) ==
  IF i = 0 THEN start
  ELSE LET m == MaxOver(f, i - 1, start) IN IF f[i] > m THEN f[i] ELSE m

CountDepth(modes, depth) == Cardinality({i \in DOMAIN modes : modes[i].depth = depth})

ModeSpan(mode) == mode.width \div (32 \div mode.depth)

risc_configure_memory(r, megabytes_ram, modes, screen_dynsize) ==
  LET mb == IF megabytes_ram < 1 THEN 1 ELSE IF megabytes_ram > 64 THEN 64 ELSE megabytes_ram
      display_start == mb * 1048576
      sizes == [i \in DOMAIN modes |-> (modes[i].width * modes[i].height) \div (8 \div modes[i].depth)]
      framebuffer_size == MaxOver(sizes, Len(modes), IF screen_dynsize THEN 2048 * 2048 ELSE 0)
      max_depth == MaxOver([i \in DOMAIN modes |-> modes[i].depth], Len(modes), 1)
      mem_lim == display_start - 16
      stack_org == display_start \div 2
  IN risc_reset(
       [r EXCEPT !.display_start = display_start,
                 !.modes_by_depth = <<@[1] + CountDepth(modes, 1), @[2] + CountDepth(modes, 4),
                                      @[3] + CountDepth(modes, 8)>>,
                 !.mem_size = display_start + framebuffer_size,
                 !.Palette = IF max_depth > 1 THEN ConfiguredPalette(max_depth) @@ @ ELSE @,
                 !.modes = modes,
                 !.current_mode = modes[1],
                 !.current_mode_span = ModeSpan(modes[1]),
                 !.damage = FullDamage(ModeSpan(modes[1]), modes[1].height),
                 !.screen_dynsize = screen_dynsize,
                 !.RAM = <<>>,
                 !.ROM = (372 :> Mk(24832, Hi(mem_lim))) @@ (373 :> Mk(16662, Lo(mem_lim)))
                           @@ (376 :> Mk(24832, Hi(stack_org))) @@ @])

risc_size_hint(r, width, height) ==
  IF r.screen_dynsize
  THEN [r EXCEPT !.dyn_mode_slots[2].width = width, !.dyn_mode_slots[2].height = height]
  ELSE r

risc_trigger_interrupt(r) == [r EXCEPT !.P = TRUE]

\* risc_set_register that takes N from the low half of the value
risc_set_register_lowhalf(r, reg, value) ==
  [r EXCEPT !.R[reg] = value, !.Z = (value = 0), !.N = (Lo(value) >= 32768)]

risc_set_register(r, reg, value) ==
  [r EXCEPT !.R[reg] = value, !.Z = (value = 0), !.N = Neg(value)]

(***************************************************************************)
(* risc.c: loads and stores.  A load returns the machine it leaves behind  *)
(* (a port read may change it) and the value read.                         *)
(***************************************************************************)
InPalette(address) ==
  ~ULt(address, PaletteStart) /\ ULt(address, Add32(PaletteStart, 1024))

risc_load_io(r, address) ==
  IF InPalette(address)
  THEN [risc |-> r, val |-> PalAt(r, Shr(Sub32(address, PaletteStart), 2))]
  ELSE
    LET port == Sub32(address, IOStart)
    IN CASE port = 0  -> [risc |-> [r EXCEPT !.progress = Sub32(@, 1)],
                          val |-> r.current_tick]
         [] port = 4  -> [risc |-> r, val |-> r.switches]
         [] port = 16 -> [risc |-> r, val |-> 255]
         [] port = 20 -> [risc |-> r, val |-> 1]
         [] port = 24 ->
              IF Len(r.key_buf) > 0
              THEN [risc |-> r, val |-> BitOr(r.mouse, Mk(4096, 0))]
              ELSE [risc |-> [r EXCEPT !.progress = Sub32(@, 1)], val |-> r.mouse]
         [] port = 28 ->
              IF Len(r.key_buf) > 0
              THEN [risc |-> [r EXCEPT !.key_buf = Tail(@)], val |-> Head(r.key_buf)]
              ELSE [risc |-> r, val |-> 0]
         [] port = 48 -> [risc |-> r, val |-> r.current_mode.index]
         [] port = 60 ->
              IF r.hwenum_idx < Len(r.hwenum_buf)
              THEN [risc |-> [r EXCEPT !.hwenum_idx = @ + 1],
                    val |-> r.hwenum_buf[r.hwenum_idx + 1]]
              ELSE [risc |-> r, val |-> 0]
         [] OTHER     -> [risc |-> r, val |-> 0]

\* a load that reads the ROM at the addresses from ROMStart on
risc_load_word_rom(r, address) ==
  IF ULt(address, r.mem_size)
  THEN [risc |-> r, val |-> RamAt(r, Shr(address, 2))]
  ELSE IF ~ULt(address, ROMStart)
  THEN [risc |-> r, val |-> RomAt(r, Shr(Sub32(address, ROMStart), 2))]
  ELSE risc_load_io(r, address)

risc_load_word(r, address) ==
  IF ULt(address, r.mem_size)
  THEN [risc |-> r, val |-> RamAt(r, Shr(address, 2))]
  ELSE risc_load_io(r, address)

risc_load_byte(r, address) ==
  LET l == risc_load_word(r, address)
  IN [risc |-> l.risc, val |-> U8(Shr(l.val, (address % 4) * 8))]

\* risc_update_damage that never lowers x1
risc_update_damage_keepx1(r, w) ==
  LET row == w \div r.current_mode_span
      col == w % r.current_mode_span
      d   == r.damage
  IN IF row < r.current_mode.height
     THEN [r EXCEPT !.damage =
             [x1 |-> d.x1,
              x2 |-> IF col > d.x2 THEN col ELSE d.x2,
              y1 |-> IF row < d.y1 THEN row ELSE d.y1,
              y2 |-> IF row > d.y2 THEN row ELSE d.y2]]
     ELSE r

risc_update_damage(r, w) ==
  LET row == w \div r.current_mode_span
      col == w % r.current_mode_span
      d   == r.damage
  IN IF row < r.current_mode.height
     THEN [r EXCEPT !.damage =
             [x1 |-> IF col < d.x1 THEN col ELSE d.x1,
              x2 |-> IF col > d.x2 THEN col ELSE d.x2,
              y1 |-> IF row < d.y1 THEN row ELSE d.y1,
              y2 |-> IF row > d.y2 THEN row ELSE d.y2]]
     ELSE r

\* the mode switch of port 48: a mode of the list by its index, and with
\* screen_dynsize a mode made up from the value (mode << 30 | width << 15 | height)
ModeIndex(modes, value) ==
  LET hits == {i \in DOMAIN modes : modes[i].index = value}
  IN IF hits = {} THEN 0 ELSE CHOOSE i \in hits : \A j \in hits : i <= j

Clamp(x, lo, hi) == IF x < lo THEN lo ELSE IF x > hi THEN hi ELSE x

mode_switch(r, value) ==
  LET k  == ModeIndex(r.modes, value)
      r1 == IF k # 0
            THEN [r EXCEPT !.current_mode = r.modes[k],
                           !.current_mode_span = ModeSpan(r.modes[k]),
                           !.screen_seamless = FALSE]
            ELSE [r EXCEPT !.screen_seamless = FALSE]
  IN IF k # 0 \/ ~r.screen_dynsize THEN r1
     ELSE
       LET mode     == Shr(value, 30)
           w0       == Shr(value, 15) % 32768
           h0       == Lo(value) % 32768
           seamless == w0 = 0 /\ h0 = 0
           width    == IF seamless
                       THEN Clamp((r.dyn_mode_slots[2].width \div 32) * 32, 64, 2048)
                       ELSE w0
           height   == IF seamless THEN Clamp(r.dyn_mode_slots[2].height, 64, 2048) ELSE h0
           value1   == IF seamless THEN BitOr(Shl(mode, 30), width * 32768 + height) ELSE value
           r2       == [r1 EXCEPT !.screen_seamless = seamless]
           depth    == IF mode = 1 THEN 1 ELSE IF mode = 2 THEN 8 ELSE 4
           slot     == [index |-> value1, width |-> width, height |-> height, depth |-> depth]
       IN IF width <= 2048 /\ width % 32 = 0 /\ height <= 2045 /\ mode >= 1 /\ mode <= 3
          THEN [r2 EXCEPT !.dyn_mode_slots[1] = slot,
                          !.current_mode = slot,
                          !.current_mode_span = width \div (32 \div depth)]
          ELSE r2

\* The ports 4, 8, 16, 32, 36, 40 and 44 reach a device only; a store to port
\* 52 fills the debug console buffer, which no load reads back.
\* HW_ENUM_ID(a,b,c,d): four characters packed into a word, first character on top
Ascii ==
  ("1" :> 49) @@ ("6" :> 54) @@ ("8" :> 56) @@ ("C" :> 67) @@ ("D" :> 68) @@ ("E" :> 69)
  @@ ("F" :> 70) @@ ("H" :> 72) @@ ("I" :> 73) @@ ("K" :> 75) @@ ("L" :> 76) @@ ("M" :> 77)
  @@ ("N" :> 78) @@ ("P" :> 80) @@ ("R" :> 82) @@ ("S" :> 83) @@ ("T" :> 84) @@ ("V" :> 86)
  @@ ("b" :> 98) @@ ("c" :> 99) @@ ("d" :> 100) @@ ("e" :> 101) @@ ("f" :> 102)
  @@ ("g" :> 103) @@ ("i" :> 105) @@ ("k" :> 107) @@ ("l" :> 108) @@ ("m" :> 109)
  @@ ("n" :> 110) @@ ("p" :> 112) @@ ("r" :> 114) @@ ("s" :> 115) @@ ("t" :> 116)
  @@ ("v" :> 118) @@ ("w" :> 119) @@ ("x" :> 120) @@ ("y" :> 121)
HW_ENUM_ID(a, b, c, d) == Mk(Ascii[a] * 256 + Ascii[b], Ascii[c] * 256 + Ascii[d])

\* the records of the modes of one depth: width, height, span in bytes, base address
RECURSIVE ModeRecords(_, _, _, _)
ModeRecords(r, i, depth, perByte) ==
  IF i > Len(r.modes) THEN << >>
  ELSE (IF r.modes[i].depth = depth
        THEN << r.modes[i].width, r.modes[i].height, r.modes[i].width \div perByte,
                r.display_start >>
        ELSE << >>) \o ModeRecords(r, i + 1, depth, perByte)

\* a reply that does not depend on what is installed
Present_always(cond, words) == words

\* if (cond) { hwenum_buf[hwenum_cnt++] = ...; }
Present(cond, words) == IF cond THEN words ELSE << >>
DynRecord(r, palette) ==
  << -16 >> \o palette \o << 2048, 2048, 32, 1, -1, r.display_start, 1 >>
ParavirtualDisk(r) == r.spi[1] = "pvdisk"

\* the reply a store to port 60 builds (hwenum_cnt is its length); modes_by_depth
\* is indexed from 1 here, and 8bcD tests the count of the 4-bit modes as the code does
hwenum(r, value) ==
  CASE value = 0 ->
         << 1 >>
         \o Present(r.modes_by_depth[1] > 0,
                    << HW_ENUM_ID("m", "V", "i", "d") >>
                    \o Present(r.screen_dynsize, << HW_ENUM_ID("m", "D", "y", "n") >>))
         \o Present(r.modes_by_depth[2] > 0,
                    << HW_ENUM_ID("1", "6", "c", "V") >>
                    \o Present(r.screen_dynsize, << HW_ENUM_ID("1", "6", "c", "D") >>))
         \o Present(r.modes_by_depth[3] > 0,
                    << HW_ENUM_ID("8", "b", "c", "V") >>
                    \o Present(r.screen_dynsize, << HW_ENUM_ID("8", "b", "c", "D") >>))
         \o << HW_ENUM_ID("T", "i", "m", "r"), HW_ENUM_ID("S", "w", "t", "c"),
               HW_ENUM_ID("S", "P", "I", "f"), HW_ENUM_ID("M", "s", "K", "b"),
               HW_ENUM_ID("R", "s", "e", "t"), HW_ENUM_ID("v", "R", "T", "C"),
               HW_ENUM_ID("D", "b", "g", "C") >>
         \o Present(r.leds, << HW_ENUM_ID("L", "E", "D", "s") >>)
         \o Present(r.serial, << HW_ENUM_ID("S", "P", "r", "t") >>)
         \o Present(r.clipboard, << HW_ENUM_ID("v", "C", "l", "p") >>)
         \o Present(r.hostfs, << HW_ENUM_ID("H", "s", "F", "s") >>)
         \o Present(r.hosttransfer, << HW_ENUM_ID("v", "H", "T", "x") >>)
         \o Present(ParavirtualDisk(r), << HW_ENUM_ID("v", "D", "s", "k") >>)
    [] value = HW_ENUM_ID("m", "V", "i", "d") ->
         Present(r.modes_by_depth[1] > 0,
                 << r.modes_by_depth[1], -16 >> \o ModeRecords(r, 1, 1, 8))
    [] value = HW_ENUM_ID("m", "D", "y", "n") ->
         Present(r.modes_by_depth[1] > 0 /\ r.screen_dynsize, DynRecord(r, << >>))
    [] value = HW_ENUM_ID("1", "6", "c", "V") ->
         Present(r.modes_by_depth[2] > 0,
                 << r.modes_by_depth[2], r.modes_by_depth[1], -16, PaletteStart >>
                 \o ModeRecords(r, 1, 4, 2))
    [] value = HW_ENUM_ID("1", "6", "c", "D") ->
         Present(r.modes_by_depth[2] > 0 /\ r.screen_dynsize, DynRecord(r, << PaletteStart >>))
    [] value = HW_ENUM_ID("8", "b", "c", "V") ->
         Present(r.modes_by_depth[3] > 0,
                 << r.modes_by_depth[3], r.modes_by_depth[1] + r.modes_by_depth[2], -16,
                    PaletteStart >>
                 \o ModeRecords(r, 1, 8, 1))
    [] value = HW_ENUM_ID("8", "b", "c", "D") ->
         Present(r.modes_by_depth[2] > 0 /\ r.screen_dynsize, DynRecord(r, << PaletteStart >>))
    [] value = HW_ENUM_ID("T", "i", "m", "r") -> << -64 >>
    [] value = HW_ENUM_ID("S", "w", "t", "c") -> << 1, -60 >>
    [] value = HW_ENUM_ID("L", "E", "D", "s") -> Present(r.leds, << 8, -60 >>)
    [] value = HW_ENUM_ID("S", "P", "r", "t") -> Present(r.serial, << 1, -52, -56 >>)
    [] value = HW_ENUM_ID("S", "P", "I", "f") ->
         << -44, -48 >>
         \o Present(r.spi[1] # "none", << HW_ENUM_ID("S", "D", "C", "r") >>)
         \o Present(r.spi[2] # "none", << HW_ENUM_ID("w", "N", "e", "t") >>)
    [] value = HW_ENUM_ID("M", "s", "K", "b") -> << -40, -36 >>
    [] value = HW_ENUM_ID("v", "C", "l", "p") -> Present(r.clipboard, << -24, -20 >>)
    [] value = HW_ENUM_ID("v", "D", "s", "k") -> Present(ParavirtualDisk(r), << -28 >>)
    [] value = HW_ENUM_ID("H", "s", "F", "s") -> Present(r.hostfs, << -32 >>)
    [] value = HW_ENUM_ID("v", "H", "T", "x") -> Present(r.hosttransfer, << -32 >>)
    [] value = HW_ENUM_ID("D", "b", "g", "C") -> << -12 >>
    [] value = HW_ENUM_ID("R", "s", "e", "t") -> << ROMStart >>
    [] value = HW_ENUM_ID("v", "R", "T", "C") -> << 0, r.initial_clock >>
    [] OTHER -> << >>

risc_store_io(r, address, value) ==
  IF InPalette(address)
  THEN [r EXCEPT !.Palette = (Shr(Sub32(address, PaletteStart), 2) :> value) @@ @,
                 !.damage = FullDamage(r.current_mode_span, r.current_mode.height)]
  ELSE LET port == Sub32(address, IOStart)
       IN CASE port = 20 -> [r EXCEPT !.spi_selected = value % 4]
            [] port = 48 -> mode_switch(r, value)
            [] port = 60 -> [r EXCEPT !.hwenum_buf = hwenum(r, value), !.hwenum_idx = 0]
            [] OTHER     -> r

\* risc_store_word that leaves the framebuffer region unwritten
risc_store_word_nofb(r, address, value) ==
  IF ULt(address, r.display_start)
  THEN [r EXCEPT !.RAM = (Shr(address, 2) :> value) @@ @]
  ELSE IF ULt(address, r.mem_size)
  THEN risc_update_damage(r, Shr(address, 2) - Shr(r.display_start, 2))
  ELSE risc_store_io(r, address, value)

\* risc_store_word with the RAM mirrored through the address space below the ROM
risc_store_word_mirror(r, address, value) ==
  IF ULt(address, r.display_start)
  THEN [r EXCEPT !.RAM = (Shr(address, 2) :> value) @@ @]
  ELSE IF ULt(address, r.mem_size)
  THEN risc_update_damage([r EXCEPT !.RAM = (Shr(address, 2) :> value) @@ @],
                          Shr(address, 2) - Shr(r.display_start, 2))
  ELSE IF ULt(address, ROMStart)
  THEN [r EXCEPT !.RAM = ((address % r.mem_size) \div 4 :> value) @@ @]
  ELSE risc_store_io(r, address, value)

risc_store_word(r, address, value) ==
  IF ULt(address, r.display_start)
  THEN [r EXCEPT !.RAM = (Shr(address, 2) :> value) @@ @]
  ELSE IF ULt(address, r.mem_size)
  THEN risc_update_damage([r EXCEPT !.RAM = (Shr(address, 2) :> value) @@ @],
                          Shr(address, 2) - Shr(r.display_start, 2))
  ELSE risc_store_io(r, address, value)

\* risc_store_byte that stores the shifted byte as the whole word
risc_store_byte_clearing(r, address, value) ==
  IF ULt(address, r.mem_size)
  THEN LET l == risc_load_word(r, address)
       IN risc_store_word(l.risc, address, Shl(value, (address % 4) * 8))
  ELSE risc_store_io(r, address, value)

risc_store_byte(r, address, value) ==
  IF ULt(address, r.mem_size)
  THEN LET l     == risc_load_word(r, address)
           shift == (address % 4) * 8
           w     == BitOr(BitAnd(l.val, BitNot(Shl(255, shift))), Shl(value, shift))
       IN risc_store_word(l.risc, address, w)
  ELSE risc_store_io(r, address, value)

(***************************************************************************)
(* risc.c: risc_single_step.  Each case of the register-instruction switch *)
(* yields the value for R[a] and the C, V and H it leaves.                 *)
(***************************************************************************)
Bit(f) == IF f THEN 1 ELSE 0

\* (uint64_t)x * (uint64_t)y, by 8-bit limbs; lo and hi are its two words
MulU64(x, y) ==
  LET xb == <<Lo(x) % 256, Lo(x) \div 256, Hi(x) % 256, Hi(x) \div 256>>
      yb == <<Lo(y) % 256, Lo(y) \div 256, Hi(y) % 256, Hi(y) \div 256>>
      P(i, j) == IF i \in 0 .. 3 /\ j \in 0 .. 3 THEN xb[i + 1] * yb[j + 1] ELSE 0
      Col(k) == P(0, k) + P(1, k - 1) + P(2, k - 2) + P(3, k - 3)
      s0 == Col(0)
      s1 == Col(1) + (s0 \div 256)
      s2 == Col(2) + (s1 \div 256)
      s3 == Col(3) + (s2 \div 256)
      s4 == Col(4) + (s3 \div 256)
      s5 == Col(5) + (s4 \div 256)
      s6 == Col(6) + (s5 \div 256)
      s7 == s6 \div 256
  IN [lo |-> Mk((s3 % 256) * 256 + (s2 % 256), (s1 % 256) * 256 + (s0 % 256)),
      hi |-> Mk((s7 % 256) * 256 + (s6 % 256), (s5 % 256) * 256 + (s4 % 256))]

\* (int64_t)(int32_t)x * (int64_t)(int32_t)y
MulS64(x, y) ==
  LET m == MulU64(x, y)
  IN [lo |-> m.lo,
      hi |-> Sub32(Sub32(m.hi, IF Neg(x) THEN y ELSE 0), IF Neg(y) THEN x ELSE 0)]

\* x / y and x % y on uint32_t, for 0 < y < 2^31
UDivMod(x, y) ==
  IF x >= 0 THEN [quot |-> x \div y, rem |-> x % y]
  ELSE LET h   == Shr(x, 1)
           bit == x % 2
           q1  == h \div y
           r1  == h % y
           big == r1 >= y - r1 - bit
       IN [quot |-> Add32(Shl(q1, 1), Bit(big)),
           rem  |-> IF big THEN r1 - (y - r1 - bit) ELSE 2 * r1 + bit]

\* (int32_t)x / (int32_t)y and (int32_t)x % (int32_t)y, truncating, for y > 0
SDivMod(x, y) ==
  IF x < 0 /\ x % y # 0
  THEN [quot |-> (x \div y) + 1, rem |-> (x % y) - y]
  ELSE [quot |-> x \div y, rem |-> x % y]

\* risc-fp.c is not part of the sources at hand: what idiv and the
\* floating-point routines return is an input of the step (ext)
ExternalResults ==
  { [quot |-> 0, rem |-> 0, fp |-> 0], [quot |-> -1, rem |-> 5, fp |-> MinInt32] }
idiv(x, y, signed_div, ext) == [quot |-> ext.quot, rem |-> ext.rem]
fp_add(x, y, u, v, ext) == ext.fp
fp_mul(x, y, ext) == ext.fp
fp_div(x, y, ext) == ext.fp

op_mov(r, ir, c_val) ==
  IF ~ubit(ir) THEN c_val
  ELSE IF qbit(ir) THEN Shl(c_val, 16)
  ELSE IF vbit(ir)
  THEN Mk(Bit(r.N) * 32768 + Bit(r.Z) * 16384 + Bit(r.C) * 8192 + Bit(r.V) * 4096, 208)
  ELSE r.H

op_ror(b_val, c_val) ==
  BitOr(Shr(b_val, c_val % 32), Shl(b_val, (32 - (c_val % 32)) % 32))

\* op_add with the carry test a_val <= b_val
op_add_carry_le(r, ir, b_val, c_val) ==
  LET s     == Add32(b_val, c_val)
      a_val == IF ubit(ir) THEN Add32(s, Bit(r.C)) ELSE s
  IN [val |-> a_val, C |-> ~ULt(b_val, a_val),
      V |-> Neg(BitAnd(BitXor(a_val, c_val), BitXor(a_val, b_val))), H |-> r.H]

op_add(r, ir, b_val, c_val) ==
  LET s     == Add32(b_val, c_val)
      a_val == IF ubit(ir) THEN Add32(s, Bit(r.C)) ELSE s
  IN [val |-> a_val, C |-> ULt(a_val, b_val),
      V |-> Neg(BitAnd(BitXor(a_val, c_val), BitXor(a_val, b_val))), H |-> r.H]

op_sub(r, ir, b_val, c_val) ==
  LET s     == Sub32(b_val, c_val)
      a_val == IF ubit(ir) THEN Sub32(s, Bit(r.C)) ELSE s
  IN [val |-> a_val, C |-> ULt(b_val, a_val),
      V |-> Neg(BitAnd(BitXor(b_val, c_val), BitXor(a_val, b_val))), H |-> r.H]

op_mul(r, ir, b_val, c_val) ==
  LET tmp == IF ~ubit(ir) THEN MulS64(b_val, c_val) ELSE MulU64(b_val, c_val)
  IN [val |-> tmp.lo, C |-> r.C, V |-> r.V, H |-> tmp.hi]

\* op_div without the adjustment of a negative remainder
op_div_truncating(r, ir, b_val, c_val, ext) ==
  IF c_val > 0
  THEN IF ~ubit(ir)
       THEN LET t == SDivMod(b_val, c_val)
            IN [val |-> t.quot, C |-> r.C, V |-> r.V, H |-> t.rem]
       ELSE LET t == UDivMod(b_val, c_val)
            IN [val |-> t.quot, C |-> r.C, V |-> r.V, H |-> t.rem]
  ELSE LET q == idiv(b_val, c_val, ~ubit(ir), ext)
       IN [val |-> q.quot, C |-> r.C, V |-> r.V, H |-> q.rem]

op_div(r, ir, b_val, c_val, ext) ==
  IF c_val > 0
  THEN IF ~ubit(ir)
       THEN LET t == SDivMod(b_val, c_val)
            IN IF t.rem < 0
               THEN [val |-> Sub32(t.quot, 1), C |-> r.C, V |-> r.V,
                     H |-> Add32(t.rem, c_val)]
               ELSE [val |-> t.quot, C |-> r.C, V |-> r.V, H |-> t.rem]
       ELSE LET t == UDivMod(b_val, c_val)
            IN [val |-> t.quot, C |-> r.C, V |-> r.V, H |-> t.rem]
  ELSE LET q == idiv(b_val, c_val, ~ubit(ir), ext)
       IN [val |-> q.quot, C |-> r.C, V |-> r.V, H |-> q.rem]

\* the second operand with the immediate extended by its own bit 15
OperandC_signext(r, ir) ==
  IF ~qbit(ir) THEN r.R[RegC(ir)]
  ELSE IF ~vbit(ir) THEN ImOf(ir)
  ELSE Mk(IF ImOf(ir) >= 32768 THEN 65535 ELSE 0, ImOf(ir))

\* the second operand: R[c], the immediate, or the immediate extended by ones
OperandC(r, ir) ==
  IF ~qbit(ir) THEN r.R[RegC(ir)]
  ELSE IF ~vbit(ir) THEN ImOf(ir)
  ELSE Mk(65535, ImOf(ir))

exec_register(r, ir, ext) ==
  LET op    == OpOf(ir)
      b_val == r.R[RegB(ir)]
      c_val == OperandC(r, ir)
      Same(v) == [val |-> v, C |-> r.C, V |-> r.V, H |-> r.H]
      res   == CASE op = MOV -> Same(op_mov(r, ir, c_val))
                 [] op = LSL -> Same(Shl(b_val, c_val % 32))
                 [] op = ASR -> Same(Asr(b_val, c_val % 32))
                 [] op = ROR -> Same(op_ror(b_val, c_val))
                 [] op = AND -> Same(BitAnd(b_val, c_val))
                 [] op = ANN -> Same(BitAnd(b_val, BitNot(c_val)))
                 [] op = IOR -> Same(BitOr(b_val, c_val))
                 [] op = XOR -> Same(BitXor(b_val, c_val))
                 [] op = ADD -> op_add(r, ir, b_val, c_val)
                 [] op = SUB -> op_sub(r, ir, b_val, c_val)
                 [] op = MUL -> op_mul(r, ir, b_val, c_val)
                 [] op = DIV -> op_div(r, ir, b_val, c_val, ext)
                 [] op = FAD -> Same(fp_add(b_val, c_val, ubit(ir), vbit(ir), ext))
                 [] op = FSB -> Same(fp_add(b_val, BitXor(c_val, MinInt32),
                                            ubit(ir), vbit(ir), ext))
                 [] op = FML -> Same(fp_mul(b_val, c_val, ext))
                 [] op = FDV -> Same(fp_div(b_val, c_val, ext))
  IN risc_set_register([r EXCEPT !.C = res.C, !.V = res.V, !.H = res.H],
                       RegA(ir), res.val)

MemAddress(r, ir) == Add32(r.R[RegB(ir)], MemOff(ir))

exec_memory(r, ir) ==
  LET a       == RegA(ir)
      address == MemAddress(r, ir)
  IN IF ~ubit(ir)
     THEN LET l == IF ~vbit(ir) THEN risc_load_word(r, address)
                   ELSE risc_load_byte(r, address)
          IN risc_set_register(l.risc, a, l.val)
     ELSE IF ~vbit(ir) THEN risc_store_word(r, address, r.R[a])
          ELSE risc_store_byte(r, address, U8(r.R[a]))

\* the IRET case that leaves the condition codes of the handler in place
iret_keepflags(r) ==
  [r EXCEPT !.PC = r.SPC, !.I = FALSE, !.P = FALSE]

\* IRET that leaves P as it is
iret_keeppending(r) ==
  [r EXCEPT !.PC = r.SPC, !.Z = r.SZ, !.N = r.SN, !.C = r.SC, !.V = r.SV,
            !.I = FALSE]

\* the IRET case of the branch switch
iret(r) ==
  [r EXCEPT !.PC = r.SPC, !.Z = r.SZ, !.N = r.SN, !.C = r.SC, !.V = r.SV,
            !.I = FALSE, !.P = FALSE]

\* the IRET test without the look at I
IsIret_anymode(r, ir) == ~ubit(ir) /\ (Lo(ir) \div 16) % 2 = 1

IsIret(r, ir) == ~ubit(ir) /\ (Lo(ir) \div 16) % 2 = 1 /\ r.I
IsStiCli(ir)  == ~ubit(ir) /\ (Lo(ir) \div 32) % 2 = 1

\* the taken branch that links to the branch itself
branch_taken_linkself(r, ir) ==
  LET r1 == IF vbit(ir) THEN risc_set_register(r, 15, Shl(Sub32(r.PC, 1), 2)) ELSE r
  IN IF ~ubit(ir)
     THEN [r1 EXCEPT !.PC = Shr(r1.R[RegC(ir)], 2)]
     ELSE [r1 EXCEPT !.PC = Add32(r1.PC, BranchOff(ir))]

branch_taken(r, ir) ==
  LET r1 == IF vbit(ir) THEN risc_set_register(r, 15, Shl(r.PC, 2)) ELSE r
  IN IF ~ubit(ir)
     THEN [r1 EXCEPT !.PC = Shr(r1.R[RegC(ir)], 2)]
     ELSE [r1 EXCEPT !.PC = Add32(r1.PC, BranchOff(ir))]

exec_branch(r, ir) ==
  LET t0   == (Hi(ir) \div 2048) % 2 = 1
      cond == (Hi(ir) \div 256) % 8
      x    == CASE cond = 0 -> r.N
                [] cond = 1 -> r.Z
                [] cond = 2 -> r.C
                [] cond = 3 -> r.V
                [] cond = 4 -> r.C \/ r.Z
                [] cond = 5 -> r.N # r.V
                [] cond = 6 -> (r.N # r.V) \/ r.Z
                [] cond = 7 -> TRUE
  IN IF cond = 7 /\ IsIret(r, ir) THEN iret(r)
     ELSE IF cond = 7 /\ IsStiCli(ir) THEN [r EXCEPT !.E = (Lo(ir) % 2 = 1)]
     ELSE IF t0 # x THEN branch_taken(r, ir)
     ELSE r

\* the interrupt test at the head of the step, taken also in interrupt mode
irq_entry_nested(r) ==
  IF r.P /\ r.E
  THEN [r EXCEPT !.SPC = r.PC, !.SZ = r.Z, !.SN = r.N, !.SC = r.C, !.SV = r.V,
                 !.I = TRUE, !.PC = 1]
  ELSE r

\* the interrupt test at the head of the step
irq_entry(r) ==
  IF r.P /\ r.E /\ ~r.I
  THEN [r EXCEPT !.SPC = r.PC, !.SZ = r.Z, !.SN = r.N, !.SC = r.C, !.SV = r.V,
                 !.I = TRUE, !.PC = 1]
  ELSE r

\* the instruction fetch: from RAM, from ROM, or none ("into the void")
fetch(r) ==
  IF ULt(r.PC, r.mem_size \div 4)
  THEN [ok |-> TRUE, ir |-> RamAt(r, r.PC)]
  ELSE IF ~ULt(r.PC, Shr(ROMStart, 2)) /\ ULt(r.PC, Shr(ROMStart, 2) + ROMWords)
  THEN [ok |-> TRUE, ir |-> RomAt(r, r.PC - Shr(ROMStart, 2))]
  ELSE [ok |-> FALSE, ir |-> 0]

risc_single_step(r, ext) ==
  LET r1 == irq_entry(r)
      f  == fetch(r1)
      r2 == [r1 EXCEPT !.PC = Add32(@, 1)]
  IN IF ~f.ok THEN risc_reset(r1)
     ELSE IF ~pbit(f.ir) THEN exec_register(r2, f.ir, ext)
     ELSE IF ~qbit(f.ir) THEN exec_memory(r2, f.ir)
     ELSE exec_branch(r2, f.ir)

(***************************************************************************)
(* The programs the CPU is given.  A run starts where the boot loader has  *)
(* left the machine: a program in RAM, PC at its first word, data in the   *)
(* registers.  Word 1 of RAM is where an interrupt enters.                 *)
(***************************************************************************)
MaxSteps == 3      \* instructions executed in one run

RegIns(u, v, op, a, b, c)  == Mk(u * 8192 + v * 4096 + a * 256 + b * 16 + op, c)
ImmIns(u, v, op, a, b, im) == Mk(16384 + u * 8192 + v * 4096 + a * 256 + b * 16 + op, im)
MemIns(u, v, a, b, off) ==
  Mk(32768 + u * 8192 + v * 4096 + a * 256 + b * 16 + ((off \div H16) % 16), off % H16)
InsIRET == Mk(49152 + 1792, 16)       \* 0xC7000010
InsSTI  == Mk(49152 + 1792, 33)       \* 0xC7000021
InsCLI  == Mk(49152 + 1792, 32)       \* 0xC7000020
InsIRETE == Mk(49152 + 1792, 49)      \* 0xC7000031: bits 4, 5 and 0
InsBL   == Mk(49152 + 4096 + 1792, 3) \* 0xD7000003: branch to R3 and link

ProgBase == 8       \* the word the program is loaded at
Samples  == {0, 1, 3, -7, MaxInt32, MinInt32, -1}
Imms     == {1, 3, 65535}
FlagSets == {<<FALSE, FALSE, FALSE, FALSE>>, <<TRUE, FALSE, TRUE, FALSE>>,
             <<FALSE, TRUE, TRUE, TRUE>>}          \* Z, N, C, V

Regs(x, y, z) ==
  [i \in 0 .. 15 |-> IF i = 1 THEN x ELSE IF i = 2 THEN y ELSE IF i = 3 THEN z ELSE 0]

Loaded(ram, regs, fl, e) ==
  [risc_new EXCEPT !.PC = ProgBase, !.RAM = ram, !.R = regs,
                   !.Z = fl[1], !.N = fl[2], !.C = fl[3], !.V = fl[4], !.E = e]

\* one register instruction R0 := R1 op R2 or R0 := R1 op im
AluStarts ==
  { Loaded(ProgBase :> RegIns(u, v, op, 0, 1, 2), Regs(x, y, 0), fl, FALSE) :
      u \in 0 .. 1, v \in 0 .. 1, op \in 0 .. 15, x \in Samples, y \in Samples,
      fl \in FlagSets }
  \cup
  { Loaded(ProgBase :> ImmIns(u, v, op, 0, 1, im), Regs(x, 0, 0), fl, FALSE) :
      u \in 0 .. 1, v \in 0 .. 1, op \in 0 .. 15, x \in Samples, im \in Imms,
      fl \in FlagSets }

\* a store of R1 and a load into R0 at the same address R2 + off
MemBases == {4096, DefaultDisplayStart, DefaultDisplayStart + 98300, DefaultMemSize - 4}
MemOffs  == {0, 1, 2, 3, -4}
MemVals  == {Mk(42330, 33007), 0, -1, 128}
MemStarts ==
  { Loaded((ProgBase :> MemIns(1, sv, 1, 2, off)) @@ (ProgBase + 1 :> MemIns(0, lv, 0, 2, off))
             @@ (Shr(base + off, 2) :> Mk(4386, 33604)),
           Regs(x, base, 0), <<FALSE, FALSE, FALSE, FALSE>>, FALSE) :
      sv \in 0 .. 1, lv \in 0 .. 1, off \in MemOffs, base \in MemBases, x \in MemVals }

\* the same pair at the I/O ports from IOStart on, and at the port just below
IoStarts ==
  { Loaded((ProgBase :> MemIns(1, sv, 1, 2, off)) @@ (ProgBase + 1 :> MemIns(0, lv, 0, 2, off)),
           Regs(x, IOStart, 0), <<FALSE, FALSE, FALSE, FALSE>>, FALSE) :
      sv \in 0 .. 1, lv \in 0 .. 1, off \in MemOffs, x \in MemVals }

\* a main program and an interrupt handler of two instructions at word 1
Mains ==
  { <<RegIns(0, 0, ADD, 0, 1, 2), InsSTI, RegIns(0, 0, SUB, 0, 2, 1)>>,
    <<InsSTI, InsCLI, RegIns(0, 0, ADD, 0, 1, 2)>>,
    <<InsIRET, InsSTI, RegIns(0, 0, SUB, 0, 2, 1)>>,
    <<InsIRETE, InsCLI, RegIns(0, 0, ADD, 0, 1, 2)>> }
Handlers ==
  { RegIns(0, 0, ADD, 0, 1, 2), RegIns(0, 0, SUB, 0, 2, 1), InsIRET, InsCLI, InsSTI, InsBL,
    InsIRETE }
IrqStarts ==
  { Loaded((1 :> h) @@ (2 :> InsIRET)
             @@ [i \in ProgBase .. ProgBase + 2 |-> m[i - ProgBase + 1]],
           Regs(-1, 1, 8), fl, e) :
      h \in Handlers, m \in Mains, fl \in FlagSets, e \in BOOLEAN }

\* a load into R0 from the address in R2, then a branch to the address in R3:
\* addresses in RAM, past the end of RAM, in the ROM range, in the palette, at a
\* port; branch targets in RAM, past the end of RAM, just below the ROM and at
\* the first and the last word of the ROM
InsB == Mk(49152 + 1792, 3)         \* 0xC7000003: branch to R3
MapAddrs  == {4096, DefaultMemSize - 4, DefaultMemSize, ROMStart, ROMStart + 4,
              PaletteStart + 4, IOStart + 4}
PcTargets == {4096, DefaultMemSize, ROMStart - 4, ROMStart, -4}
MapStarts ==
  { Loaded((ProgBase :> MemIns(0, lv, 0, 2, 0)) @@ (ProgBase + 1 :> InsB)
             @@ (1024 :> RegIns(0, 0, ADD, 0, 1, 2))
             @@ (DefaultMemSize \div 4 - 1 :> Mk(4386, 33604)),
           Regs(5, a, t), <<FALSE, FALSE, FALSE, FALSE>>, FALSE) :
      lv \in 0 .. 1, a \in MapAddrs, t \in PcTargets }

\* one load or store at an address past the RAM: unmapped addresses, the ends of
\* the palette window, ports that can only be read or only be written, and the
\* other ports; on a machine with a key queued, an enumerator reply unread and a
\* palette entry set
PastRam ==
  {DefaultMemSize, DefaultMemSize + 4, MaxInt32 - 3, MinInt32, ROMStart, PaletteStart - 4,
   PaletteStart + 1024, IOStart - 4, IOStart + 1}
  \cup {IOStart + p : p \in {0, 4, 12, 24, 28, 32, 36, 48, 52, 56, 60}}
PastRamStarts ==
  { [Loaded(ProgBase :> MemIns(u, v, 1, 2, 0), Regs(x, a, 0),
            <<FALSE, TRUE, FALSE, FALSE>>, FALSE)
       EXCEPT !.key_buf = << 28 >>, !.hwenum_buf = << 1, 2 >>, !.progress = 20,
              !.switches = 5, !.Palette = (3 :> 255)] :
      u \in 0 .. 1, v \in 0 .. 1, a \in PastRam, x \in {Mk(42330, 33007), 1} }

NoOp(r)  == [op |-> "none", ir |-> 0, ok |-> FALSE, pre |-> r]
NoEntry  == [valid |-> FALSE, PC |-> 0, Z |-> FALSE, N |-> FALSE, C |-> FALSE, V |-> FALSE]
NoStore  == [valid |-> FALSE, byte |-> FALSE, addr |-> 0, val |-> 0]

IsStore(ir) == pbit(ir) /\ ~qbit(ir) /\ ubit(ir)
IsLoad(ir)  == pbit(ir) /\ ~qbit(ir) /\ ~ubit(ir)

NoRun     == [active |-> FALSE, cycles |-> 0, i |-> 0, idle |-> 0]
NoIo      == [kind |-> "none", byte |-> FALSE, addr |-> 0, val |-> 0]
NoPending == [words |-> {}, palette |-> FALSE, mode |-> FALSE]
NoReadout == [n |-> 0, rect |-> FullDamage(0, 0), since |-> NoPending,
              span |-> 0, height |-> 0]

NoKeys    == [what |-> "none", n |-> 0, batch |-> << >>, before |-> << >>, progress |-> 0,
              left |-> 0, val |-> 0, accepted |-> << >>, taken |-> << >>]

NoHw      == [valid |-> FALSE, tag |-> 0, unread |-> FALSE, reads |-> << >>]

\* no risc_run call, no read-out, no keyboard input and no enumerator request yet
HostIdle ==
  /\ keys = NoKeys
  /\ hw = NoHw
  /\ run = NoRun
  /\ nruns = 0
  /\ io = NoIo
  /\ pending = NoPending
  /\ readout = NoReadout

\* one branch instruction: every condition and its negation, to a register
\* (R3 or the link register) or by an offset, with and without the link
BranchIns(neg, cond, u, v, low24) ==
  Mk(49152 + u * 8192 + v * 4096 + neg * 2048 + cond * 256 + (low24 \div 65536),
     low24 % 65536)
BranchTargets == {43, -4}
BranchOffs    == {2, 16777215}
BranchStarts ==
  { Loaded(ProgBase :> BranchIns(neg, cond, 0, v, c), Regs(0, 0, z), fl, FALSE) :
      neg \in 0 .. 1, cond \in 0 .. 7, v \in 0 .. 1, c \in {3, 15}, z \in BranchTargets,
      fl \in FlagSets }
  \cup
  { Loaded(ProgBase :> BranchIns(neg, cond, 1, v, off), Regs(0, 0, 0), fl, FALSE) :
      neg \in 0 .. 1, cond \in 0 .. 7, v \in 0 .. 1, off \in BranchOffs, fl \in FlagSets }

CpuInit ==
  /\ risc \in AluStarts \cup MemStarts \cup IoStarts \cup IrqStarts \cup MapStarts
                \cup PastRamStarts \cup BranchStarts
  /\ nsteps = 0
  /\ last = NoOp(risc)
  /\ entry = NoEntry
  /\ lastStore = NoStore
  /\ HostIdle

\* risc_single_step (one iteration of the loop of risc_run)
Step ==
  /\ nsteps < MaxSteps
  /\ \E ext \in ExternalResults : risc' = risc_single_step(risc, ext)
  /\ nsteps' = nsteps + 1
  /\ LET r1 == irq_entry(risc)
         f  == fetch(r1)
     IN /\ last' = [op |-> "step", ir |-> f.ir, ok |-> f.ok, pre |-> risc]
        /\ entry' = IF r1 # risc
                    THEN [valid |-> TRUE, PC |-> risc.PC, Z |-> risc.Z, N |-> risc.N,
                          C |-> risc.C, V |-> risc.V]
                    ELSE entry
        /\ lastStore' = IF f.ok /\ IsStore(f.ir)
                        THEN [valid |-> TRUE, byte |-> vbit(f.ir),
                              addr |-> MemAddress(r1, f.ir),
                              val |-> IF vbit(f.ir) THEN U8(r1.R[RegA(f.ir)])
                                      ELSE r1.R[RegA(f.ir)]]
                        ELSE lastStore
  /\ UNCHANGED hostVars
  /\ UNCHANGED <<diskVars, fsVars>>

\* risc_trigger_interrupt, called between two steps
Trigger ==
  /\ risc' = risc_trigger_interrupt(risc)
  /\ last' = [op |-> "trigger", ir |-> 0, ok |-> FALSE, pre |-> risc]
  /\ UNCHANGED <<nsteps, entry, lastStore>>
  /\ UNCHANGED hostVars
  /\ UNCHANGED <<diskVars, fsVars>>

CpuNext == Step \/ Trigger

(***************************************************************************)
(* risc.c: the calls of the frame driver.  risc_run is a loop of single    *)
(* steps: RunStart is its entry, RunStep one iteration, RunReturn its      *)
(* exit.  The other calls happen between two risc_run calls.               *)
(***************************************************************************)
MaxRuns     == 3      \* risc_run calls
MaxReadouts == 2      \* risc_get_framebuffer_damage calls
Cycles      == {1, 2}

\* the memory access of the instruction about to run, with the value it moves
Access(r, rnext) ==
  LET r1 == irq_entry(r)
      f  == fetch(r1)
  IN IF f.ok /\ pbit(f.ir) /\ ~qbit(f.ir)
     THEN [kind |-> IF ubit(f.ir) THEN "store" ELSE "load",
           byte |-> vbit(f.ir),
           addr |-> MemAddress(r1, f.ir),
           val  |-> IF ~ubit(f.ir) THEN rnext.R[RegA(f.ir)]
                    ELSE IF vbit(f.ir) THEN U8(r1.R[RegA(f.ir)]) ELSE r1.R[RegA(f.ir)]]
     ELSE NoIo

InFramebuffer(r, address) == ~ULt(address, r.display_start) /\ ULt(address, r.mem_size)

\* row and column of the framebuffer word at an address, in the current mode
WordAt(r, address) ==
  LET w == Shr(address, 2) - Shr(r.display_start, 2)
  IN <<w \div r.current_mode_span, w % r.current_mode_span>>

Stored(p, r, rnext, a) ==
  [words   |-> IF a.kind = "store" /\ InFramebuffer(r, a.addr)
                  /\ WordAt(r, a.addr)[1] < r.current_mode.height
               THEN p.words \cup {WordAt(r, a.addr)} ELSE p.words,
   palette |-> p.palette \/ (a.kind = "store" /\ InPalette(a.addr)),
   mode    |-> p.mode \/ rnext.current_mode # r.current_mode
                      \/ rnext.current_mode_span # r.current_mode_span]

\* a read that counts as idle: the millisecond counter, or the mouse and keyboard
\* status while no key is queued
IdleRead(r, a) ==
  a.kind = "load" /\ (a.addr = IOStart \/ (a.addr = IOStart + 24 /\ Len(r.key_buf) = 0))

\* the record of the keyboard after a step: a read of port 28 takes a byte
KeysRead(k, r, rnext, a) ==
  IF a.kind = "load" /\ a.addr = IOStart + 28
  THEN [k EXCEPT !.what = IF Len(r.key_buf) > 0 THEN "read" ELSE "empty",
                 !.before = r.key_buf, !.progress = r.progress, !.val = a.val,
                 !.left = rnext.progress,
                 !.taken = IF Len(r.key_buf) > 0 THEN Append(@, a.val) ELSE @]
  ELSE k

\* the record of the hardware enumerator after a step: a store to port 60 is a
\* new request, a load from it reads one word
HwAccess(h, r, a) ==
  IF a.kind = "store" /\ a.addr = IOStart + 60
  THEN [valid |-> TRUE, tag |-> a.val, unread |-> r.hwenum_idx < Len(r.hwenum_buf),
        reads |-> << >>]
  ELSE IF a.kind = "load" /\ a.addr = IOStart + 60
  THEN [h EXCEPT !.reads = Append(@, a.val)]
  ELSE h

RunStart ==
  /\ ~run.active
  /\ nruns < MaxRuns
  /\ risc' = [risc EXCEPT !.progress = 20]
  /\ \E cycles \in Cycles : run' = [active |-> TRUE, cycles |-> cycles, i |-> 0, idle |-> 0]
  /\ nruns' = nruns + 1
  /\ UNCHANGED <<nsteps, last, entry, lastStore, io, pending, readout, keys, hw>>
  /\ UNCHANGED <<diskVars, fsVars>>

\* the loop of risc_run without the test of progress
RunStep_noprogress ==
  /\ run.active
  /\ run.i < run.cycles
  /\ \E ext \in ExternalResults : risc' = risc_single_step(risc, ext)
  /\ io' = Access(risc, risc')
  /\ run' = [run EXCEPT !.i = @ + 1, !.idle = @ + IF IdleRead(risc, io') THEN 1 ELSE 0]
  /\ pending' = Stored(pending, risc, risc', io')
  /\ keys' = KeysRead(keys, risc, risc', io')
  /\ hw' = HwAccess(hw, risc, io')
  /\ UNCHANGED <<nsteps, last, entry, lastStore, nruns, readout>>
  /\ UNCHANGED <<diskVars, fsVars>>

RunStep ==
  /\ run.active
  /\ run.i < run.cycles /\ risc.progress # 0
  /\ \E ext \in ExternalResults : risc' = risc_single_step(risc, ext)
  /\ io' = Access(risc, risc')
  /\ run' = [run EXCEPT !.i = @ + 1, !.idle = @ + IF IdleRead(risc, io') THEN 1 ELSE 0]
  /\ pending' = Stored(pending, risc, risc', io')
  /\ keys' = KeysRead(keys, risc, risc', io')
  /\ hw' = HwAccess(hw, risc, io')
  /\ UNCHANGED <<nsteps, last, entry, lastStore, nruns, readout>>
  /\ UNCHANGED <<diskVars, fsVars>>

RunReturn ==
  /\ run.active
  /\ ~(run.i < run.cycles /\ risc.progress # 0)
  /\ run' = [run EXCEPT !.active = FALSE]
  /\ UNCHANGED <<risc, nsteps, last, entry, lastStore, nruns, io, pending, readout, keys, hw>>
  /\ UNCHANGED <<diskVars, fsVars>>

\* risc_run with the cycles of a frame
FrameCycles == {3, 25, 45}
RunFrame ==
  /\ ~run.active
  /\ nruns < MaxRuns
  /\ risc' = [risc EXCEPT !.progress = 20]
  /\ \E cycles \in FrameCycles :
        run' = [active |-> TRUE, cycles |-> cycles, i |-> 0, idle |-> 0]
  /\ nruns' = nruns + 1
  /\ UNCHANGED <<nsteps, last, entry, lastStore, io, pending, readout, keys, hw>>
  /\ UNCHANGED <<diskVars, fsVars>>

\* risc_keyboard_input that takes the bytes that fit
risc_keyboard_input_truncating(r, scancodes) ==
  [r EXCEPT !.key_buf = SubSeq(@ \o scancodes, 1,
                               IF Len(@) + Len(scancodes) < KeyBufSize
                               THEN Len(@) + Len(scancodes) ELSE KeyBufSize)]

risc_keyboard_input(r, scancodes) ==
  IF KeyBufSize - Len(r.key_buf) >= Len(scancodes)
  THEN [r EXCEPT !.key_buf = @ \o scancodes]
  ELSE r

\* the scancodes of one key event, of 1, 7 and 8 bytes
MaxOffers == 3
Batches ==
  { << 28 >>, << 225, 20, 119, 225, 240, 20, 240 >>, << 224, 18, 224, 124, 224, 240, 124, 0 >> }

KeyboardInput ==
  /\ ~run.active
  /\ keys.n < MaxOffers
  /\ \E batch \in Batches :
        /\ risc' = risc_keyboard_input(risc, batch)
        /\ keys' = [keys EXCEPT !.what = "offer", !.n = @ + 1, !.batch = batch,
                                !.before = risc.key_buf, !.progress = risc.progress,
                                !.accepted = IF Len(risc.key_buf) + Len(batch) <= KeyBufSize
                                             THEN @ \o batch ELSE @]
  /\ UNCHANGED <<nsteps, last, entry, lastStore, run, nruns, io, pending, readout, hw>>
  /\ UNCHANGED <<diskVars, fsVars>>

\* programs that poll: loads from the ports at IOStart + offs[i], then a branch
\* back to the first of them
PollProgram(offs, lv) ==
  [i \in ProgBase .. ProgBase + Len(offs) |->
     IF i - ProgBase < Len(offs) THEN MemIns(0, lv, 0, 2, offs[i - ProgBase + 1]) ELSE InsB]
Polling(offs, lv) ==
  Loaded(PollProgram(offs, lv), Regs(0, IOStart, 4 * ProgBase),
         <<FALSE, FALSE, FALSE, FALSE>>, FALSE)

\* busy waits on the millisecond counter and on the keyboard status, with and
\* without a key in the queue, and a loop that reads no port
PollStarts ==
  { [Polling(offs, 0) EXCEPT !.key_buf = q] :
      offs \in { << 0 >>, << 24 >>, << 24, 28 >>, << 0, 0, 24 >>, << >> },
      q \in { << >>, << 28 >> } }

IdleInit ==
  /\ risc \in PollStarts
  /\ nsteps = 0
  /\ last = NoOp(risc)
  /\ entry = NoEntry
  /\ lastStore = NoStore
  /\ run = NoRun /\ nruns = 0 /\ io = NoIo /\ pending = NoPending /\ readout = NoReadout
  /\ keys = [NoKeys EXCEPT !.accepted = risc.key_buf]
  /\ hw = NoHw

IdleNext == RunFrame \/ RunStep \/ RunReturn

\* programs that read the keyboard: port 28 in a loop, four times in a row, and
\* after a look at the status
KeyStarts ==
  { Polling(offs, lv) :
      offs \in { << 28 >>, << 28, 28, 28, 28 >>, << 24, 28 >> }, lv \in 0 .. 1 }

KeysInit ==
  /\ risc \in KeyStarts
  /\ nsteps = 0
  /\ last = NoOp(risc)
  /\ entry = NoEntry
  /\ lastStore = NoStore
  /\ HostIdle

KeysNext == RunStart \/ RunStep \/ RunReturn \/ KeyboardInput

\* risc_get_framebuffer_damage: what it returns and the machine it leaves
risc_get_framebuffer_damage_zero(r) ==
  [risc |-> [r EXCEPT !.damage = [x1 |-> 0, x2 |-> 0, y1 |-> 0, y2 |-> 0]],
   dmg  |-> r.damage]

risc_get_framebuffer_damage(r) ==
  [risc |-> [r EXCEPT !.damage = [x1 |-> r.current_mode_span, x2 |-> 0,
                                  y1 |-> r.current_mode.height, y2 |-> 0]],
   dmg  |-> r.damage]

GetDamage ==
  /\ ~run.active
  /\ readout.n < MaxReadouts
  /\ risc' = risc_get_framebuffer_damage(risc).risc
  /\ readout' = [n |-> readout.n + 1, rect |-> risc_get_framebuffer_damage(risc).dmg,
                 since |-> pending, span |-> risc.current_mode_span,
                 height |-> risc.current_mode.height]
  /\ pending' = NoPending
  /\ UNCHANGED <<nsteps, last, entry, lastStore, run, nruns, io, keys, hw>>
  /\ UNCHANGED <<diskVars, fsVars>>

\* The machines of the display: as risc_new leaves it, and configured with a
\* list of three modes, with and without dynamic sizes (and a size hint).
ModeList ==
  << DefaultMode,
     [index |-> 1, width |-> 800, height |-> 600, depth |-> 4],
     [index |-> 2, width |-> 640, height |-> 480, depth |-> 8] >>

Machines ==
  { risc_new,
    risc_configure_memory(risc_new, 1, ModeList, FALSE),
    risc_size_hint(risc_configure_memory(risc_new, 1, ModeList, TRUE), 810, 600) }

\* mode-switch values: a mode of the list, 640x480 at 8 bits, "seamless", and
\* 32x0 at 1 bit
ModeValues == {1, Mk(33088, 480), Mk(16384, 0), Mk(16384 + 16, 0)}

\* where the stores go: three framebuffer words (the first, row 10 column 5,
\* the last), a palette entry and the mode switch
Targets(r) ==
  LET span == r.current_mode_span
      h    == r.current_mode.height
  IN { r.display_start,
       r.display_start + 4 * (10 * span + 5),
       r.display_start + 4 * (h * span - 1),
       PaletteStart + 8, IOStart + 48 }

InsHalt == Mk(59391, 65535)    \* 0xE7FFFFFF: branch always, to itself

\* R0 stored at the addresses in R1, R2 and R3
StoreProgram ==
  (ProgBase :> MemIns(1, 0, 0, 1, 0)) @@ (ProgBase + 1 :> MemIns(1, 0, 0, 2, 0))
    @@ (ProgBase + 2 :> MemIns(1, 0, 0, 3, 0)) @@ (ProgBase + 3 :> InsHalt)

VideoStartsOn(m) ==
  { [m EXCEPT !.PC = ProgBase, !.RAM = StoreProgram,
              !.R = [Regs(t1, t2, t3) EXCEPT ![0] = v]] :
      v \in ModeValues, t1 \in Targets(m), t2 \in Targets(m), t3 \in Targets(m) }

VideoStarts == UNION { VideoStartsOn(m) : m \in Machines }

VideoInit ==
  /\ risc \in VideoStarts
  /\ nsteps = 0
  /\ last = NoOp(risc)
  /\ entry = NoEntry
  /\ lastStore = NoStore
  /\ HostIdle

VideoNext == RunStart \/ RunStep \/ RunReturn \/ GetDamage

\* the machines of the enumerator: as risc_new leaves it; with modes of all depths
\* and every peripheral set; with dynamic sizes; with 1-bit and 4-bit modes only;
\* with 1-bit and 8-bit modes only
risc_set_spi(r, index, spi) == IF index = 1 \/ index = 2 THEN [r EXCEPT !.spi[index] = spi] ELSE r
AllSet(r) ==
  risc_set_spi(risc_set_spi([r EXCEPT !.leds = TRUE, !.serial = TRUE, !.clipboard = TRUE,
                                      !.hostfs = TRUE, !.hosttransfer = TRUE],
                            1, "pvdisk"), 2, "wiznet")
EnumMachines ==
  { risc_new,
    AllSet(risc_configure_memory(risc_new, 1, ModeList, FALSE)),
    risc_set_spi(risc_configure_memory(risc_new, 1, ModeList, TRUE), 1, "disk"),
    risc_configure_memory(risc_new, 1, SubSeq(ModeList, 1, 2), TRUE),
    risc_configure_memory(risc_new, 1,
                          << ModeList[1], [ModeList[3] EXCEPT !.index = 1] >>, TRUE) }

Tags ==
  { 0, HW_ENUM_ID("m", "V", "i", "d"), HW_ENUM_ID("m", "D", "y", "n"),
    HW_ENUM_ID("1", "6", "c", "V"), HW_ENUM_ID("1", "6", "c", "D"),
    HW_ENUM_ID("8", "b", "c", "V"), HW_ENUM_ID("8", "b", "c", "D"),
    HW_ENUM_ID("T", "i", "m", "r"), HW_ENUM_ID("S", "w", "t", "c"),
    HW_ENUM_ID("L", "E", "D", "s"), HW_ENUM_ID("S", "P", "r", "t"),
    HW_ENUM_ID("S", "P", "I", "f"), HW_ENUM_ID("M", "s", "K", "b"),
    HW_ENUM_ID("v", "C", "l", "p"), HW_ENUM_ID("v", "D", "s", "k"),
    HW_ENUM_ID("H", "s", "F", "s"), HW_ENUM_ID("v", "H", "T", "x"),
    HW_ENUM_ID("D", "b", "g", "C"), HW_ENUM_ID("R", "s", "e", "t"),
    HW_ENUM_ID("v", "R", "T", "C") }
UnknownTags == { 1, HW_ENUM_ID("S", "D", "C", "r") }

\* a request for the list of devices, one read, a second request, then reads in a loop
EnumProgram ==
  (ProgBase :> MemIns(1, 0, 1, 2, 0)) @@ (ProgBase + 1 :> MemIns(0, 0, 0, 2, 0))
  @@ (ProgBase + 2 :> MemIns(1, 0, 4, 2, 0)) @@ (ProgBase + 3 :> MemIns(0, 0, 0, 2, 0))
  @@ (ProgBase + 4 :> InsB)
EnumStarts ==
  { [m EXCEPT !.PC = ProgBase, !.RAM = EnumProgram,
              !.R = [i \in 0 .. 15 |-> CASE i = 1 -> 0
                                         [] i = 2 -> IOStart + 60
                                         [] i = 3 -> 4 * (ProgBase + 3)
                                         [] i = 4 -> tag
                                         [] OTHER -> 0]] :
      m \in EnumMachines, tag \in Tags \cup UnknownTags }

\* machines with every peripheral installed and five or six modes of one depth,
\* or the modes of ModeList; one request is stored to the enumerator
HwEnumWords == 24                      \* int32_t hwenum_buf[24]
ModesOfDepth(n, depth) ==
  [i \in 1 .. n |-> [index |-> i - 1, width |-> 1024, height |-> 768, depth |-> depth]]
WideLists ==
  { ModesOfDepth(n, depth) : n \in {5, 6}, depth \in {1, 4, 8} } \cup { ModeList }
WideMachines ==
  { AllSet(risc_configure_memory(risc_new, 1, modes, dynsize)) :
      modes \in WideLists, dynsize \in BOOLEAN }
WideStarts ==
  { [m EXCEPT !.PC = ProgBase, !.RAM = (ProgBase :> MemIns(1, 0, 4, 2, 0)),
              !.R = [i \in 0 .. 15 |-> CASE i = 2 -> IOStart + 60
                                         [] i = 4 -> tag
                                         [] OTHER -> 0]] :
      m \in WideMachines, tag \in Tags \cup UnknownTags }

WideInit ==
  /\ risc \in WideStarts
  /\ nsteps = 0
  /\ last = NoOp(risc)
  /\ entry = NoEntry
  /\ lastStore = NoStore
  /\ HostIdle

EnumInit ==
  /\ risc \in EnumStarts
  /\ nsteps = 0
  /\ last = NoOp(risc)
  /\ entry = NoEntry
  /\ lastStore = NoStore
  /\ HostIdle

EnumNext == RunFrame \/ RunStep \/ RunReturn

(***************************************************************************)
(* disk.c: the host-FS bridge.  A name is the sequence of its characters.  *)
(* The host directory is the sequence of its files in the order readdir    *)
(* lists them, each with the inode it names; a file made by mkstemp gets a *)
(* suffix no other file has.  A request is the block at ram[offset]: the   *)
(* operation, the sector word at +1 and the string at +2.  The operations  *)
(* 3, 7 and 8 (attributes, file contents) change neither the slots nor the *)
(* directory's names and are left out.                                     *)
(***************************************************************************)
MAX_HOSTFS_FILES    == 4096
HOSTFS_SECTOR_MAGIC == 290000000
PathSize            == 256         \* sizeof(fullname), sizeof(newFullName)
PrefixSize          == 33          \* sizeof(current_prefix)

Null    == << "NULL" >>            \* a NULL entry of allocated_names
NameDel == << "~", "D", "e", "l" >>
NameOvW == << "~", "O", "v", "W" >>
NameNew == << "~", "N", "e", "w" >>
Suffix  == << "#1", "#2", "#3", "#4", "#5", "#6", "#7", "#8" >>   \* mkstemp's XXXXXX

FirstChar(name) == IF name = << >> THEN "" ELSE name[1]
StartsWith(name, prefix) ==
  Len(prefix) <= Len(name) /\ SubSeq(name, 1, Len(prefix)) = prefix
MinOf(S) == CHOOSE x \in S : \A y \in S : x <= y

\* access(F_OK), unlink, rename and mkstemp on the host directory
FileExists(d, name) == \E i \in DOMAIN d.files : d.files[i].name = name
InodeOf(d, name) ==
  IF FileExists(d, name)
  THEN d.files[CHOOSE i \in DOMAIN d.files : d.files[i].name = name].ino
  ELSE 0
unlink(d, name) == [d EXCEPT !.files = SelectSeq(@, LAMBDA e : e.name # name)]
rename(d, old, new) ==
  IF ~FileExists(d, old) \/ old = new THEN d
  ELSE LET rest == SelectSeq(d.files, LAMBDA e : e.name # new)
       IN [d EXCEPT !.files = [i \in DOMAIN rest |->
                                 IF rest[i].name = old THEN [rest[i] EXCEPT !.name = new]
                                 ELSE rest[i]]]
mkstemp(d, stem) ==
  LET name == stem \o << Suffix[d.next] >>
  IN [dir  |-> [files |-> Append(d.files, [name |-> name, ino |-> d.next + 100, data |-> << >>]),
                next  |-> d.next + 1],
      name |-> name]

\* snprintf(fullname, sizeof(fullname), "%s/%s", dirname, filename) < sizeof(fullname)
Fits(h, filename) == Len(h.dirname) + 1 + Len(filename) < PathSize

\* the entries readdir goes through: ".", ".." and the files
DirEntries(d) == << << "." >>, << ".", "." >> >> \o [i \in DOMAIN d.files |-> d.files[i].name]

host_fs_new(directory, d) ==
  [dirname |-> directory, names |-> << >>, full |-> << >>, prefix |-> << >>,
   stream |-> DirEntries(d), pos |-> 0]

\* hostfs_search_file without the test of allocated_names_size
hostfs_search_file_nocap(h, d, filename) ==
  LET hits == {i \in 0 .. Len(h.names) - 1 :
                 h.names[i + 1] # Null /\ h.names[i + 1] = filename}
  IN IF hits # {}
     THEN [hostfs |-> h, sector |-> HOSTFS_SECTOR_MAGIC + MinOf(hits)]
     ELSE IF Fits(h, filename) /\ FileExists(d, filename)
     THEN LET gap == IF Len(h.names) % 29 = 0 THEN << Null >> ELSE << >>
          IN [hostfs |-> [h EXCEPT !.names = @ \o gap \o << filename >>,
                                   !.full  = @ \o gap \o << filename >>],
              sector |-> HOSTFS_SECTOR_MAGIC + Len(h.names) + Len(gap)]
     ELSE [hostfs |-> h, sector |-> 0]

\* hostfs_search_file that allocates the next slot whatever its index
hostfs_search_file_nogap(h, d, filename) ==
  LET hits == {i \in 0 .. Len(h.names) - 1 :
                 h.names[i + 1] # Null /\ h.names[i + 1] = filename}
  IN IF hits # {}
     THEN [hostfs |-> h, sector |-> HOSTFS_SECTOR_MAGIC + MinOf(hits)]
     ELSE IF Len(h.names) < MAX_HOSTFS_FILES - 1 /\ Fits(h, filename)
             /\ FileExists(d, filename)
     THEN [hostfs |-> [h EXCEPT !.names = @ \o << filename >>,
                                !.full  = @ \o << filename >>],
           sector |-> HOSTFS_SECTOR_MAGIC + Len(h.names)]
     ELSE [hostfs |-> h, sector |-> 0]

\* slot i is names[i + 1]; allocated_names_size is Len(names)
hostfs_search_file(h, d, filename) ==
  LET hits == {i \in 0 .. Len(h.names) - 1 :
                 h.names[i + 1] # Null /\ h.names[i + 1] = filename}
  IN IF hits # {}
     THEN [hostfs |-> h, sector |-> HOSTFS_SECTOR_MAGIC + MinOf(hits)]
     ELSE IF Len(h.names) < MAX_HOSTFS_FILES - 1 /\ Fits(h, filename)
             /\ FileExists(d, filename)
     THEN LET gap == IF Len(h.names) % 29 = 0 THEN << Null >> ELSE << >>
          IN [hostfs |-> [h EXCEPT !.names = @ \o gap \o << filename >>,
                                   !.full  = @ \o gap \o << filename >>],
              sector |-> HOSTFS_SECTOR_MAGIC + Len(h.names) + Len(gap)]
     ELSE [hostfs |-> h, sector |-> 0]

Matches(h, name) ==
  StartsWith(name, h.prefix) /\ FirstChar(name) # "~" /\ FirstChar(name) # "."

\* Enumerate that lists the entries starting with '.' as well
enumerate_next_dots(h, d, sector, name) ==
  LET later == {j \in h.pos + 1 .. Len(h.stream) :
                  StartsWith(h.stream[j], h.prefix) /\ FirstChar(h.stream[j]) # "~"}
  IN IF later = {}
     THEN [hostfs |-> [h EXCEPT !.pos = Len(h.stream)], dir |-> d, sector |-> 0, name |-> name]
     ELSE LET j == MinOf(later)
              f == hostfs_search_file([h EXCEPT !.pos = j], d, h.stream[j])
          IN [hostfs |-> f.hostfs, dir |-> d, sector |-> f.sector, name |-> h.stream[j]]

\* case 2 (and the tail of case 1): readdir up to the next match
enumerate_next(h, d, sector, name) ==
  LET later == {j \in h.pos + 1 .. Len(h.stream) : Matches(h, h.stream[j])}
  IN IF later = {}
     THEN [hostfs |-> [h EXCEPT !.pos = Len(h.stream)], dir |-> d, sector |-> 0, name |-> name]
     ELSE LET j == MinOf(later)
              f == hostfs_search_file([h EXCEPT !.pos = j], d, h.stream[j])
          IN [hostfs |-> f.hostfs, dir |-> d, sector |-> f.sector, name |-> h.stream[j]]

\* case 1: strncpy of the prefix, rewinddir
enumerate_start(h, d, sector, name) ==
  enumerate_next([h EXCEPT !.prefix = SubSeq(name, 1, IF Len(name) < PrefixSize - 1
                                                        THEN Len(name) ELSE PrefixSize - 1),
                           !.stream = DirEntries(d), !.pos = 0],
                 d, sector, name)

\* case 4 that leaves the slot of an overwritten file as it is
insert_notombstone(h, d, word, fileName) ==
  LET sector == Sub32(word, HOSTFS_SECTOR_MAGIC)
  IN IF ULt(sector, Len(h.names)) /\ sector >= 0 /\ h.names[sector + 1] # Null
        /\ FirstChar(h.names[sector + 1]) = "~" /\ Fits(h, fileName)
     THEN [hostfs |-> [h EXCEPT !.names[sector + 1] = fileName, !.full[sector + 1] = fileName],
           dir    |-> rename(d, h.full[sector + 1], fileName),
           sector |-> word, name |-> fileName]
     ELSE [hostfs |-> h, dir |-> d, sector |-> word, name |-> fileName]

\* case 4: FileDir.Insert
\* case 4 without the look at the first character of the slot's name
insert_anyslot(h, d, word, fileName) ==
  LET sector == Sub32(word, HOSTFS_SECTOR_MAGIC)
  IN IF ULt(sector, Len(h.names)) /\ sector >= 0 /\ h.names[sector + 1] # Null
        /\ Fits(h, fileName)
     THEN
       LET hits == {i \in 0 .. Len(h.names) - 1 :
                      h.names[i + 1] # Null /\ h.names[i + 1] = fileName}
           t    == mkstemp(d, NameOvW \o << "~" >>)
           h1   == IF FileExists(d, fileName) /\ hits # {}
                   THEN [h EXCEPT !.names[MinOf(hits) + 1] = NameOvW,
                                  !.full[MinOf(hits) + 1] = t.name]
                   ELSE h
           d1   == IF ~FileExists(d, fileName) THEN d
                   ELSE IF hits = {} THEN unlink(d, fileName)
                   ELSE rename(unlink(t.dir, t.name), fileName, t.name)
       IN [hostfs |-> [h1 EXCEPT !.names[sector + 1] = fileName,
                                 !.full[sector + 1] = fileName],
           dir    |-> rename(d1, h1.full[sector + 1], fileName),
           sector |-> word, name |-> fileName]
     ELSE [hostfs |-> h, dir |-> d, sector |-> word, name |-> fileName]

insert(h, d, word, fileName) ==
  LET sector == Sub32(word, HOSTFS_SECTOR_MAGIC)
  IN IF ULt(sector, Len(h.names)) /\ sector >= 0 /\ h.names[sector + 1] # Null
        /\ FirstChar(h.names[sector + 1]) = "~" /\ Fits(h, fileName)
     THEN
       LET hits == {i \in 0 .. Len(h.names) - 1 :
                      h.names[i + 1] # Null /\ h.names[i + 1] = fileName}
           t    == mkstemp(d, NameOvW \o << "~" >>)
           \* the file of that name: unlinked, or moved aside with its slot
           h1   == IF FileExists(d, fileName) /\ hits # {}
                   THEN [h EXCEPT !.names[MinOf(hits) + 1] = NameOvW,
                                  !.full[MinOf(hits) + 1] = t.name]
                   ELSE h
           d1   == IF ~FileExists(d, fileName) THEN d
                   ELSE IF hits = {} THEN unlink(d, fileName)
                   ELSE rename(unlink(t.dir, t.name), fileName, t.name)
       IN [hostfs |-> [h1 EXCEPT !.names[sector + 1] = fileName,
                                 !.full[sector + 1] = fileName],
           dir    |-> rename(d1, h1.full[sector + 1], fileName),
           sector |-> word, name |-> fileName]
     ELSE [hostfs |-> h, dir |-> d, sector |-> word, name |-> fileName]

\* case 5: FileDir.Delete
\* case 5 that renames the file and leaves the slot's guest name
delete_keepname(h, d, word, name) ==
  LET f == hostfs_search_file(h, d, name)
      k == f.sector - HOSTFS_SECTOR_MAGIC
      t == mkstemp(d, NameDel \o << "~" >> \o name \o << "_" >>)
  IN IF f.sector # 0
     THEN [hostfs |-> [f.hostfs EXCEPT !.full[k + 1] = t.name],
           dir    |-> rename(unlink(t.dir, t.name), f.hostfs.full[k + 1], t.name),
           sector |-> f.sector, name |-> name]
     ELSE [hostfs |-> f.hostfs, dir |-> d, sector |-> 0, name |-> name]

delete(h, d, word, name) ==
  LET f == hostfs_search_file(h, d, name)
      k == f.sector - HOSTFS_SECTOR_MAGIC
      t == mkstemp(d, NameDel \o << "~" >> \o name \o << "_" >>)
  IN IF f.sector # 0
     THEN [hostfs |-> [f.hostfs EXCEPT !.names[k + 1] = NameDel, !.full[k + 1] = t.name],
           dir    |-> rename(unlink(t.dir, t.name), f.hostfs.full[k + 1], t.name),
           sector |-> f.sector, name |-> name]
     ELSE [hostfs |-> f.hostfs, dir |-> d, sector |-> 0, name |-> name]

\* case 6: Files.New
new_file(h, d, word, name) ==
  LET t == mkstemp(d, NameNew \o << "~" >> \o name \o << "_" >>)
      f == hostfs_search_file(h, t.dir, t.name)
  IN [hostfs |-> f.hostfs, dir |-> t.dir, sector |-> f.sector, name |-> name]

\* what a request leaves: the bridge, the directory, the word at +1, the string at +2
hostfs_write(h, d, op, word, name) ==
  CASE op = 0 -> LET f == hostfs_search_file(h, d, name)
                 IN [hostfs |-> f.hostfs, dir |-> d, sector |-> f.sector, name |-> name]
    [] op = 1 -> enumerate_start(h, d, word, name)
    [] op = 2 -> enumerate_next(h, d, word, name)
    [] op = 4 -> insert(h, d, word, name)
    [] op = 5 -> delete(h, d, word, name)
    [] op = 6 -> new_file(h, d, word, name)
    [] OTHER  -> [hostfs |-> h, dir |-> d, sector |-> word, name |-> name]

(***************************************************************************)
(* The guest of the host-FS bridge: requests on a directory that holds the *)
(* files Aa, Ab, ~h and .d, or those and a file with a name of 254         *)
(* characters, in another order.                                           *)
(***************************************************************************)
MaxRequests == 4

NameAa   == << "A", "a" >>
NameAb   == << "A", "b" >>
NameHid  == << "~", "h" >>
NameDot  == << ".", "d" >>
LongName == [i \in 1 .. 254 |-> "L"]

Directories ==
  { [files |-> << [name |-> NameAa, ino |-> 1, data |-> << 17, 34, 51, 68, 85, 102 >>], [name |-> NameAb, ino |-> 2, data |-> << 7 >>],
                  [name |-> NameHid, ino |-> 3, data |-> << >>], [name |-> NameDot, ino |-> 4, data |-> << >>] >>,
     next |-> 1],
    [files |-> << [name |-> NameDot, ino |-> 4, data |-> << >>], [name |-> NameAb, ino |-> 2, data |-> << 7 >>],
                  [name |-> LongName, ino |-> 5, data |-> << >>], [name |-> NameHid, ino |-> 3, data |-> << >>],
                  [name |-> NameAa, ino |-> 1, data |-> << 17, 34, 51, 68, 85, 102 >>] >>,
     next |-> 1] }

SearchNames == {NameAa, NameAb, NameHid, NameDel, LongName}
DeleteNames == {NameAa, NameAb, NameDel}
InsertNames == {NameAb, NameDel, LongName}
Hints       == {NameAa}
Prefixes    == {<< "A" >>, << >>}
SectorArgs  == {0, HOSTFS_SECTOR_MAGIC + 1, HOSTFS_SECTOR_MAGIC + 2}

NoFsOp    == [op |-> -1, word |-> 0, name |-> << >>, slot |-> Null, sector |-> 0,
              out |-> << >>, tilde |-> FALSE, alive |-> TRUE, failed |-> FALSE,
              ram |-> << >>]
NoListing == [valid |-> FALSE, prefix |-> << >>, expect |-> << >>, calls |-> << >>]

FsInit ==
  /\ hdir \in Directories
  /\ hostfs = host_fs_new(<< "d" >>, hdir)
  /\ fsop = NoFsOp
  /\ listing = NoListing
  /\ nfs = 0

FsIdle ==
  /\ hdir = [files |-> << >>, next |-> 1]
  /\ hostfs = host_fs_new(<< "d" >>, hdir)
  /\ fsop = NoFsOp
  /\ listing = NoListing
  /\ nfs = 0

\* the entries an enumeration with this prefix is to list
Expected(d, prefix) ==
  SelectSeq([i \in DOMAIN d.files |-> d.files[i].name],
            LAMBDA n : StartsWith(n, prefix) /\ FirstChar(n) # "~" /\ FirstChar(n) # ".")

\* the name of the slot a sector word refers to, Null when it refers to none
SlotOf(h, word) ==
  LET sector == Sub32(word, HOSTFS_SECTOR_MAGIC)
  IN IF ULt(sector, Len(h.names)) /\ sector >= 0 THEN h.names[sector + 1] ELSE Null

\* a store to port 32 with the request block set up
Request(op, word, name) ==
  /\ fsop.alive
  /\ LET w == hostfs_write(hostfs, hdir, op, word, name)
     IN /\ hostfs' = w.hostfs
        /\ hdir' = w.dir
        /\ fsop' = [op |-> op, word |-> word, name |-> name, slot |-> SlotOf(hostfs, word),
                    sector |-> w.sector, out |-> w.name,
                    tilde |-> fsop.tilde \/ (op = 4 /\ FirstChar(name) = "~"),
                    alive |-> TRUE, failed |-> FALSE, ram |-> risc.RAM]
        /\ listing' =
             IF op = 1
             THEN [valid |-> TRUE, prefix |-> name, expect |-> Expected(hdir, name),
                   calls |-> << [sector |-> w.sector, name |-> w.name] >>]
             ELSE IF op = 2
             THEN [listing EXCEPT !.calls = Append(@, [sector |-> w.sector, name |-> w.name])]
             ELSE IF op = 0 THEN listing
             ELSE [listing EXCEPT !.valid = FALSE]
  /\ nfs' = nfs + 1
  /\ UNCHANGED <<diskVars, cpuVars>>

Search ==
  /\ nfs < MaxRequests
  /\ \E name \in SearchNames : Request(0, 0, name)

EnumerateStart ==
  /\ nfs < MaxRequests
  /\ \E prefix \in Prefixes : Request(1, 0, prefix)

EnumerateNext ==
  /\ nfs < MaxRequests
  /\ Request(2, 0, << >>)

Insert ==
  /\ nfs < MaxRequests
  /\ \E word \in SectorArgs, name \in InsertNames : Request(4, word, name)

Delete ==
  /\ nfs < MaxRequests
  /\ \E name \in DeleteNames : Request(5, 0, name)

New ==
  /\ nfs < MaxRequests
  /\ \E name \in Hints : Request(6, 0, name)

FsNext == Search \/ EnumerateStart \/ EnumerateNext \/ Insert \/ Delete \/ New

\* the bytes of a word as the host keeps them in RAM, and the word of four bytes
WordBytes(w) == << Lo(w) % 256, Lo(w) \div 256, Hi(w) % 256, Hi(w) \div 256 >>
BytesWord(b) == Mk(b[3] + 256 * b[4], b[1] + 256 * b[2])

\* the contents of the file at a path
FileData(d, path) == d.files[CHOOSE i \in DOMAIN d.files : d.files[i].name = path].data

\* fread(&ram[address / 4], size, 1, fd) that found these bytes before the end of the file
copy_in(r, address, bytes) ==
  LET base == Shr(address, 2)
      new  == [k \in base .. base + (Len(bytes) + 3) \div 4 - 1 |->
                 BytesWord([m \in 1 .. 4 |->
                              IF 4 * (k - base) + m <= Len(bytes)
                              THEN bytes[4 * (k - base) + m]
                              ELSE WordBytes(RamAt(r, k))[m]])]
  IN [r EXCEPT !.RAM = new @@ @]

\* fwrite(&ram[address / 4], size, 1, fd) at position fpos of a file opened "rb+"
copy_out(r, address, size, fpos, old) ==
  LET base  == Shr(address, 2)
      bytes == [i \in 1 .. size |-> WordBytes(RamAt(r, base + (i - 1) \div 4))[((i - 1) % 4) + 1]]
      pad   == IF Len(old) < fpos THEN old \o [i \in 1 .. fpos - Len(old) |-> 0] ELSE old
  IN SubSeq(pad, 1, fpos) \o bytes \o SubSeq(pad, fpos + size + 1, Len(pad))

\* fseek and fread or fwrite on the NULL that fopen returned, or fopen of a NULL
\* path: undefined behaviour, which ends the process or passes without effect
\* unsigned sector < allocated_names_size
SectorInTable(h, word) == ULt(Sub32(word, HOSTFS_SECTOR_MAGIC), Len(h.names))
SlotPath(h, word) == h.full[Sub32(word, HOSTFS_SECTOR_MAGIC) + 1]
CannotOpen(h, d, word) ==
  SectorInTable(h, word) /\ (SlotPath(h, word) = Null \/ ~FileExists(d, SlotPath(h, word)))

\* case 7: Files.ReadBuf; the outcomes, each the machine and whether the process lives
read_buf(h, d, r, word, fpos, size, address) ==
  IF ~SectorInTable(h, word) THEN {[risc |-> r, alive |-> TRUE]}
  ELSE IF CannotOpen(h, d, word)
  THEN {[risc |-> r, alive |-> FALSE], [risc |-> r, alive |-> TRUE]}
  ELSE LET data == FileData(d, SlotPath(h, word))
           upto == IF fpos + size < Len(data) THEN fpos + size ELSE Len(data)
       IN {[risc |-> copy_in(r, address, SubSeq(data, fpos + 1, upto)), alive |-> TRUE]}

\* case 8: Files.WriteBuf; the outcomes, each the directory and whether the process lives
write_buf(h, d, r, word, fpos, size, address) ==
  IF ~SectorInTable(h, word) THEN {[dir |-> d, alive |-> TRUE]}
  ELSE IF CannotOpen(h, d, word)
  THEN {[dir |-> d, alive |-> FALSE], [dir |-> d, alive |-> TRUE]}
  ELSE LET path == SlotPath(h, word)
           new  == copy_out(r, address, size, fpos, FileData(d, path))
       IN {[dir |-> [d EXCEPT !.files = [i \in DOMAIN d.files |->
                                          IF d.files[i].name = path
                                          THEN [d.files[i] EXCEPT !.data = new]
                                          ELSE d.files[i]]],
            alive |-> TRUE]}

\* the guest's buffer, the sectors it passes and the stretches of a file it asks for
Buffers  == {4096}
Guest    == [risc_new EXCEPT !.RAM = (1024 :> Mk(41634, 41892)) @@ (1025 :> Mk(45746, 46004))]
Sectors  == {HOSTFS_SECTOR_MAGIC, HOSTFS_SECTOR_MAGIC + 1, HOSTFS_SECTOR_MAGIC + 2,
             HOSTFS_SECTOR_MAGIC - 1}
Extents  == {[fpos |-> 0, size |-> 4], [fpos |-> 2, size |-> 6], [fpos |-> 8, size |-> 2]}

ReadBuf ==
  /\ nfs < MaxRequests
  /\ fsop.alive
  /\ \E word \in Sectors, x \in Extents, address \in Buffers :
       \E o \in read_buf(hostfs, hdir, risc, word, x.fpos, x.size, address) :
         /\ risc' = o.risc
         /\ fsop' = [fsop EXCEPT !.op = 7, !.word = word, !.name = << >>,
                                 !.slot = SlotOf(hostfs, word), !.sector = word,
                                 !.out = << >>, !.alive = o.alive,
                                 !.failed = CannotOpen(hostfs, hdir, word), !.ram = risc.RAM]
  /\ nfs' = nfs + 1
  /\ UNCHANGED <<hostfs, hdir, listing, diskVars, nsteps, last, entry, lastStore, hostVars>>

WriteBuf ==
  /\ nfs < MaxRequests
  /\ fsop.alive
  /\ \E word \in Sectors, x \in Extents, address \in Buffers :
       \E o \in write_buf(hostfs, hdir, risc, word, x.fpos, x.size, address) :
         /\ hdir' = o.dir
         /\ fsop' = [fsop EXCEPT !.op = 8, !.word = word, !.name = << >>,
                                 !.slot = SlotOf(hostfs, word), !.sector = word,
                                 !.out = << >>, !.alive = o.alive,
                                 !.failed = CannotOpen(hostfs, hdir, word), !.ram = risc.RAM]
  /\ nfs' = nfs + 1
  /\ UNCHANGED <<hostfs, listing, diskVars, cpuVars>>

\* another process of the host removes a file from the directory
HostUnlink ==
  /\ fsop.alive
  /\ \E name \in DeleteNames :
       /\ FileExists(hdir, name)
       /\ hdir' = unlink(hdir, name)
  /\ UNCHANGED <<hostfs, fsop, listing, nfs, diskVars, cpuVars>>

BufInit ==
  /\ risc = Guest
  /\ nsteps = 0
  /\ last = NoOp(Guest)
  /\ entry = NoEntry
  /\ lastStore = NoStore
  /\ HostIdle

BufNext == Search \/ Delete \/ ReadBuf \/ WriteBuf \/ HostUnlink

\* hostfs_write as the guest reaches it: a store of value to port 32, the request
\* block at ram[value / 4] (operation, sector, file position, size, address).
\* RAM is the array of mem_size bytes that risc_configure_memory allocates; a
\* word of the sparse RAM at an index from RamWordCount on stands for the memory
\* that follows the array.
MaxBlockRequests == 2
RamWordCount(r) == r.mem_size \div 4
BlockAt(r, value) ==
  LET offset == Shr(value, 2)
  IN [op |-> RamAt(r, offset), word |-> RamAt(r, offset + 1), fpos |-> RamAt(r, offset + 2),
      size |-> RamAt(r, offset + 3), address |-> RamAt(r, offset + 4)]

\* the indexes of ram[] that cases 7 and 8, and a value of no case, read or write
hostfs_touched(h, d, r, value) ==
  LET offset == Shr(value, 2)
      b      == BlockAt(r, value)
      left   == Len(FileData(d, SlotPath(h, b.word))) - b.fpos
      moved  == IF b.op = 8 THEN b.size
                ELSE IF left < 0 THEN 0 ELSE IF left < b.size THEN left ELSE b.size
  IN {offset} \cup
     IF offset >= RamWordCount(r) \/ b.op \notin {7, 8} THEN {}
     ELSE {offset + 1} \cup
          IF ~SectorInTable(h, b.word) THEN {}
          ELSE {offset + 2, offset + 3, offset + 4} \cup
               IF CannotOpen(h, d, b.word) THEN {}
               ELSE {Shr(b.address, 2) + k : k \in 0 .. (moved + 3) \div 4 - 1}

\* the outcomes of the request: the machine, the directory, whether the process
\* lives.  An access past the array is undefined behaviour: it ends the process,
\* or it reaches the memory that follows the array (an operation word read there
\* is taken to be that of no case).
hostfs_block(h, d, r, value) ==
  LET b      == BlockAt(r, value)
      served ==
        IF b.op = 7
        THEN {[risc |-> o.risc, dir |-> d, alive |-> o.alive] :
                o \in read_buf(h, d, r, b.word, b.fpos, b.size, b.address)}
        ELSE IF b.op = 8
        THEN {[risc |-> r, dir |-> o.dir, alive |-> o.alive] :
                o \in write_buf(h, d, r, b.word, b.fpos, b.size, b.address)}
        ELSE {[risc |-> r, dir |-> d, alive |-> TRUE]}
  IN IF Shr(value, 2) >= RamWordCount(r)
     THEN {[risc |-> r, dir |-> d, alive |-> FALSE], [risc |-> r, dir |-> d, alive |-> TRUE]}
     ELSE IF \E i \in hostfs_touched(h, d, r, value) : i >= RamWordCount(r)
     THEN served \cup {[risc |-> r, dir |-> d, alive |-> FALSE]}
     ELSE served

\* the guest's request block at address 8192 and the values it stores to the port
RequestBlock(op, word, fpos, size, address) ==
  (2048 :> op) @@ (2049 :> word) @@ (2050 :> fpos) @@ (2051 :> size) @@ (2052 :> address)
BlockAddrs   == {8192, risc_new.mem_size, MinInt32}
BlockBuffers == {4096, risc_new.mem_size - 4, risc_new.mem_size, MinInt32}
BlockExtents == {[fpos |-> 0, size |-> 4], [fpos |-> 0, size |-> 6]}
BlockGuests ==
  { [risc_new EXCEPT !.hostfs = TRUE,
                     !.RAM = RequestBlock(op, word, x.fpos, x.size, address)
                             @@ (1024 :> Mk(41634, 41892)) @@ (1025 :> Mk(45746, 46004))] :
      op \in {7, 8, 9}, word \in {HOSTFS_SECTOR_MAGIC + 1, HOSTFS_SECTOR_MAGIC + 5},
      x \in BlockExtents, address \in BlockBuffers }

BlockRequest ==
  /\ nfs < MaxBlockRequests
  /\ fsop.alive
  /\ \E value \in BlockAddrs :
       \E o \in hostfs_block(hostfs, hdir, risc, value) :
         LET inside == Shr(value, 2) < RamWordCount(risc)
             b      == BlockAt(risc, value)
         IN /\ risc' = o.risc
            /\ hdir' = o.dir
            /\ fsop' = [fsop EXCEPT !.op = IF inside THEN b.op ELSE -1,
                                    !.word = IF inside THEN b.word ELSE 0,
                                    !.name = << >>, !.slot = Null, !.sector = 0,
                                    !.out = << >>, !.alive = o.alive, !.failed = FALSE,
                                    !.ram = risc.RAM]
            /\ last' = [op |-> "hostfs", ir |-> value, ok |-> o.alive, pre |-> risc]
  /\ nfs' = nfs + 1
  /\ UNCHANGED <<hostfs, listing, diskVars, nsteps, entry, lastStore, hostVars>>

\* the bridge after the guest has looked up the file Aa
BlockInit ==
  /\ hdir \in Directories
  /\ hostfs = hostfs_search_file(host_fs_new(<< "d" >>, hdir), hdir, NameAa).hostfs
  /\ fsop = NoFsOp
  /\ listing = NoListing
  /\ nfs = 0
  /\ risc \in BlockGuests
  /\ nsteps = 0
  /\ last = NoOp(risc)
  /\ entry = NoEntry
  /\ lastStore = NoStore
  /\ HostIdle

\* a bridge whose directory holds thousands of files, after the guest has looked
\* up all but the last four: slots 1 .. size - 1 are taken, every 29th left NULL
MaxFullRequests == 2
Filler(i)   == << "F", ToString(i) >>
NearlyFull  == {MAX_HOSTFS_FILES - 2}
FullTable(size) == [i \in 1 .. size |-> IF (i - 1) % 29 = 0 THEN Null ELSE Filler(i - 1)]
FullDirectory(size) ==
  [files |-> [i \in 1 .. size - 1 |-> [name |-> Filler(i), ino |-> 1000 + i, data |-> << >>]]
             \o << [name |-> NameAa, ino |-> 1, data |-> << 17, 34, 51, 68, 85, 102 >>], [name |-> NameAb, ino |-> 2, data |-> << 7 >>],
                   [name |-> NameHid, ino |-> 3, data |-> << >>], [name |-> NameDot, ino |-> 4, data |-> << >>] >>,
   next |-> 1]

\* tables whose next slot is a multiple of 29
BeforeGap  == {29, 58}
TableSizes == NearlyFull \cup BeforeGap

FullInit ==
  /\ \E size \in TableSizes :
       /\ hdir = FullDirectory(size)
       /\ hostfs = [host_fs_new(<< "d" >>, hdir) EXCEPT !.names = FullTable(size),
                                                       !.full = FullTable(size)]
  /\ fsop = NoFsOp
  /\ listing = NoListing
  /\ nfs = 0

\* the requests of the claim, a few of them on each of these bridges
FullSearch ==
  /\ nfs < MaxFullRequests
  /\ \E name \in SearchNames : Request(0, 0, name)

FullEnumerateStart ==
  /\ nfs < MaxFullRequests
  /\ \E prefix \in Prefixes : Request(1, 0, prefix)

FullEnumerateNext ==
  /\ nfs < MaxFullRequests
  /\ Request(2, 0, << >>)

FullDelete ==
  /\ nfs < MaxFullRequests
  /\ \E name \in DeleteNames : Request(5, 0, name)

FullNew ==
  /\ nfs < MaxFullRequests
  /\ \E name \in Hints : Request(6, 0, name)

FullNext == FullSearch \/ FullEnumerateStart \/ FullEnumerateNext \/ FullDelete \/ FullNew

(***************************************************************************)
(* Specifications                                                          *)
(***************************************************************************)
\* mode-switch requests: depth bits, width and height around the limits, and
\* indexes of the mode list; R1 and then R3 stored to the port in R2, on machines
\* without dynamic sizes, with them, and with a size hint larger than any mode
DynValue(mode, width, height) == BitOr(Shl(mode, 30), width * 32768 + height)
DynWidths   == {0, 1000, 1024, 2048, 2080}
DynHeights  == {0, 768, 2045, 2046, 2048, 2049}
Requests    == {DynValue(m, w, h) : m \in 0 .. 3, w \in DynWidths, h \in DynHeights}
                 \cup {1, 2}
SecondRequests == {2, DynValue(1, 1024, 768), DynValue(0, 1024, 768), DynValue(3, 0, 0)}
ModeMachines ==
  { risc_configure_memory(risc_new, 1, ModeList, FALSE),
    risc_size_hint(risc_configure_memory(risc_new, 1, ModeList, TRUE), 810, 600),
    risc_size_hint(risc_configure_memory(risc_new, 1, ModeList, TRUE), 3000, 2500) }
ModeStarts ==
  { [m EXCEPT !.PC = ProgBase,
              !.RAM = (ProgBase :> MemIns(1, 0, 1, 2, 0)) @@ (ProgBase + 1 :> MemIns(1, 0, 3, 2, 0)),
              !.R = Regs(v1, IOStart + 48, v2)] :
      m \in ModeMachines, v1 \in Requests, v2 \in SecondRequests }

ModesInit ==
  /\ risc \in ModeStarts
  /\ nsteps = 0
  /\ last = NoOp(risc)
  /\ entry = NoEntry
  /\ lastStore = NoStore
  /\ HostIdle

CpuIdle ==
  /\ risc = risc_new
  /\ nsteps = 0
  /\ last = NoOp(risc_new)
  /\ entry = NoEntry
  /\ lastStore = NoStore
  /\ HostIdle

DiskIdle ==
  /\ image = "none"
  /\ disk = disk_new("none")
  /\ queue = <<>>
  /\ sending = NoSend
  /\ ncmd = 0
  /\ lastCmd = NoCmd
  /\ nwr = 0
  /\ lastWrite = NoWrite

\* the disk alone, driven over SPI
InitDisk == DiskInit /\ CpuIdle /\ FsIdle
SpecDisk == InitDisk /\ [][DiskNext]_vars

\* the CPU alone, running the programs above
InitCPU == CpuInit /\ DiskIdle /\ FsIdle
SpecCPU == InitCPU /\ [][CpuNext]_vars

(***************************************************************************)
(* sdl-main.c: the reset key.  The event loop calls risc_reset between two *)
(* calls of risc_run, whatever the machine is doing: here a machine with   *)
(* interrupts enabled, a key queued, an SPI device selected and part of    *)
(* the screen damaged, before the interrupt and inside its handler.  The   *)
(* handler is an ADD or a branch to the word just below the ROM; word 0,   *)
(* where the boot loader ends up, is an IRET or an ADD.                    *)
(***************************************************************************)
ResetHandlers == { RegIns(0, 0, ADD, 0, 1, 2), InsB }
ResetWords    == { InsIRET, RegIns(0, 0, ADD, 0, 1, 2) }
ResetMachines ==
  { [Loaded((0 :> w0) @@ (1 :> h) @@ (2 :> InsIRET)
              @@ (ProgBase :> RegIns(0, 0, ADD, 0, 1, 2)),
            Regs(5, 1, ROMStart - 4), fl, TRUE)
       EXCEPT !.key_buf = << 28 >>, !.spi_selected = 1, !.H = 7,
              !.damage = [x1 |-> 1, y1 |-> 2, x2 |-> 3, y2 |-> 4]] :
      h \in ResetHandlers, w0 \in ResetWords, fl \in FlagSets }
ResetStarts ==
  ResetMachines
  \cup { risc_single_step(risc_trigger_interrupt(m), ext) :
           m \in ResetMachines, ext \in ExternalResults }

ResetInit ==
  /\ risc \in ResetStarts
  /\ nsteps = 0
  /\ last = NoOp(risc)
  /\ entry = NoEntry
  /\ lastStore = NoStore
  /\ HostIdle

\* main, case ACTION_RESET: risc_reset, called between two steps
Reset ==
  /\ risc' = risc_reset(risc)
  /\ last' = [op |-> "reset", ir |-> 0, ok |-> FALSE, pre |-> risc]
  /\ UNCHANGED <<nsteps, entry, lastStore>>
  /\ UNCHANGED hostVars
  /\ UNCHANGED <<diskVars, fsVars>>

ResetNext == Step \/ Trigger \/ Reset

InitReset == ResetInit /\ DiskIdle /\ FsIdle
SpecReset == InitReset /\ [][ResetNext]_vars

\* the display: programs of stores, run in batches, and damage read-outs
InitVideo == VideoInit /\ DiskIdle /\ FsIdle
SpecVideo == InitVideo /\ [][VideoNext]_vars

\* the host-FS bridge alone, driven by requests
InitIdle == IdleInit /\ DiskIdle /\ FsIdle
SpecIdle == InitIdle /\ [][IdleNext]_vars
SpecIdleFair == SpecIdle /\ WF_vars(RunStep) /\ WF_vars(RunReturn)

InitKeys == KeysInit /\ DiskIdle /\ FsIdle
SpecKeys == InitKeys /\ [][KeysNext]_vars

InitEnum == EnumInit /\ DiskIdle /\ FsIdle
SpecEnum == InitEnum /\ [][EnumNext]_vars

\* the enumerator on machines with long mode lists; the reply is held as the
\* words the enumerator writes, those past the end of hwenum_buf included
InitEnumWide == WideInit /\ DiskIdle /\ FsIdle
SpecEnumWide == InitEnumWide /\ [][Step]_vars

\* the bridge reading its request block and the data buffer from guest RAM
InitHostRam == BlockInit /\ DiskIdle
SpecHostRam == InitHostRam /\ [][BlockRequest]_vars

InitHostFS == FsInit /\ DiskIdle /\ CpuIdle
SpecHostFS == InitHostFS /\ [][FsNext]_vars

\* the mode switch, driven by store instructions
InitModes == ModesInit /\ DiskIdle /\ FsIdle
SpecModes == InitModes /\ [][Step]_vars

\* the bridge serving reads and writes of file contents
InitHostIO == FsInit /\ DiskIdle /\ BufInit
SpecHostIO == InitHostIO /\ [][BufNext]_vars

\* the bridge with its slot table about to fill up
InitHostFull == FullInit /\ DiskIdle /\ CpuIdle
SpecHostFull == InitHostFull /\ [][FullNext]_vars

(***************************************************************************)
(* Claims about the disk (checked under SpecDisk)                          *)
(***************************************************************************)
\* word i of a 512-byte sector, read little-endian
FileWord(bytes, i) ==
  Mk(bytes[4 * i + 3] * 256 + bytes[4 * i + 2], bytes[4 * i + 1] * 256 + bytes[4 * i])

\* the bytes the file holds in sector s (zeros where it holds none); a sector
\* number with bit 31 set lies beyond every file of this model
SectorAt(f, s) ==
  IF f.open /\ s >= 0 /\ s \in DOMAIN f.data THEN f.data[s] ELSE ZeroBytes

\* the value delivered by the read of the k-th exchange after the last command
\* is disk_read(disk) in the states where nwr = k
DataExchanges == 3 .. SectorWords + 2

\* C1: with a backing file, after a complete write-sector transaction
\* (command 88 with argument N, token 254, 128 data words, 2 CRC words) a
\* following read-sector command 81 with the same N delivers exactly those
\* 128 words, in order, in exchanges 3..130.
C1_WriteThenRead ==
  (/\ image # "none"
   /\ lastWrite.seed # -1
   /\ lastCmd.cmd = 81 /\ lastCmd.arg = lastWrite.arg
   /\ nwr \in DataExchanges)
  => disk_read(disk) = Block(lastWrite.seed)[nwr - 3]

C1_Witness ==
  /\ image # "none"
  /\ lastWrite.seed # -1
  /\ lastCmd.cmd = 81 /\ lastCmd.arg = lastWrite.arg
  /\ nwr = SectorWords + 2
  /\ disk_read(disk) = Block(lastWrite.seed)[SectorWords - 1]

\* C2: after a read-sector command has run, the successive exchanges deliver
\* 0, then 254, then the 128 words of the addressed sector in order; the disk
\* is in the Read phase up to the 130th exchange, is back in the Command phase
\* from the 131st write on, and reads then return 255 until another command
\* has run.
C2_ReadResponse ==
  lastCmd.cmd = 81 =>
    /\ nwr = 1 => disk_read(disk) = 0
    /\ nwr = 2 => disk_read(disk) = 254
    /\ nwr \in DataExchanges =>
         disk_read(disk) =
           FileWord(SectorAt(disk.file, Sub32(lastCmd.arg, disk.offset) % SeekMod), nwr - 3)
    /\ nwr <= SectorWords + 2 => disk.state = "Read"
    /\ nwr > SectorWords + 2 => disk.state = "Command" /\ disk_read(disk) = 255

C2_Witness ==
  /\ lastCmd.cmd = 81 /\ image = "plain" /\ lastCmd.arg = FsOffset
  /\ nwr = SectorWords + 4
  /\ disk.state = "Command" /\ disk_read(disk) = 255

\* C3: disk_new sets the bias to 0x80002 exactly when the first little-endian
\* word of the image is 0x9B1EA38D and to 0 otherwise; commands 81 and 88 with
\* argument A then address file sector (A - bias) mod 2^32.
C3_BiasAndAddress ==
  /\ disk.offset = IF image # "none" /\ FileWord(ImageData(image)[0], 0) = FsMagic
                   THEN FsOffset ELSE 0
  /\ (image # "none" /\ lastCmd.cmd = 81 /\ nwr = 0) =>
       \A i \in 0 .. SectorWords - 1 :
         disk.tx_buf[2 + i] = FileWord(SectorAt(disk.file, Sub32(lastCmd.arg, disk.offset)), i)
  /\ (image # "none" /\ lastCmd.cmd = 88 /\ lastWrite.seed # -1) =>
       \A i \in 0 .. SectorWords - 1 :
         FileWord(SectorAt(disk.file, Sub32(lastWrite.arg, disk.offset)), i)
           = Block(lastWrite.seed)[i]

\* C4 as stated: on a filesystem-only image the command 51 00 00 00 00 00 is
\* answered by 0, 254 and then the contents of sector 0x80002.
C4_Original ==
  (image = "fs" /\ lastCmd = [cmd |-> 81, arg |-> 0]) =>
    /\ nwr = 1 => disk_read(disk) = 0
    /\ nwr = 2 => disk_read(disk) = 254
    /\ nwr \in DataExchanges =>
         disk_read(disk) = FileWord(SectorAt(disk.file, FsOffset), nwr - 3)

\* C4 amended: on a filesystem-only image the command 51 00 00 00 00 00 is
\* answered by 0, 254 and then the 128 words the file holds at sector
\* (0 - 0x80002) mod 2^23 = 0x77FFFE, which are zeros where the file is shorter.
C4_Amended ==
  (image = "fs" /\ lastCmd = [cmd |-> 81, arg |-> 0]) =>
    /\ nwr = 1 => disk_read(disk) = 0
    /\ nwr = 2 => disk_read(disk) = 254
    /\ nwr \in DataExchanges =>
         disk_read(disk) = FileWord(SectorAt(disk.file, SeekMod - FsOffset), nwr - 3)

C4_Witness ==
  /\ image = "fs" /\ lastCmd = [cmd |-> 81, arg |-> 0] /\ ncmd = 1
  /\ nwr = SectorWords + 2
  /\ disk_read(disk) = 0

(***************************************************************************)
(* Claims about the CPU (checked under SpecCPU).  A claim about a step is  *)
(* stated on the state after it: last holds the instruction the step ran   *)
(* and the machine it started from.                                        *)
(***************************************************************************)
Stepped  == last.op = "step" /\ last.ok
IretIns(ir) ==
  pbit(ir) /\ qbit(ir) /\ (Hi(ir) \div 256) % 8 = 7 /\ ~ubit(ir) /\ (Lo(ir) \div 16) % 2 = 1
SameFlags(r, z, n, c, v) == r.Z = z /\ r.N = n /\ r.C = c /\ r.V = v
ShadowIs(r, pc, z, n, c, v) ==
  r.SPC = pc /\ r.SZ = z /\ r.SN = n /\ r.SC = c /\ r.SV = v

\* C5: With E set and I clear, the step after risc_trigger_interrupt saves PC and
\* Z, N, C, V into SPC and SZ, SN, SC, SV, sets I (which only an IRET at word 1
\* itself takes back within the same step) and runs the instruction at word 1;
\* an IRET executed in the handler leaves PC and the four flags as they were at
\* the interrupt entry, whatever the handler did, with I and P clear.
C5_InterruptRoundTrip ==
  /\ (last.op = "step" /\ last.pre.P /\ last.pre.E /\ ~last.pre.I) =>
       /\ ShadowIs(risc, last.pre.PC, last.pre.Z, last.pre.N, last.pre.C, last.pre.V)
       /\ last.ok /\ last.ir = RamAt(last.pre, 1)
       /\ risc.I = ~IretIns(last.ir)
  /\ (Stepped /\ IretIns(last.ir) /\ (last.pre.I \/ (last.pre.P /\ last.pre.E))) =>
       /\ entry.valid
       /\ risc.PC = entry.PC
       /\ SameFlags(risc, entry.Z, entry.N, entry.C, entry.V)
       /\ ~risc.I /\ ~risc.P

\* an IRET that ends a handler which had changed Z and C, two steps after the entry
C5_Witness ==
  /\ Stepped /\ IretIns(last.ir) /\ last.pre.I
  /\ last.pre.Z # entry.Z /\ last.pre.C # entry.C
  /\ risc.PC = entry.PC /\ risc.Z = entry.Z /\ risc.C = entry.C
  /\ ~risc.I /\ ~risc.P

\* C6: A step enters the interrupt exactly when P, E and not-I hold at its start:
\* then it saves PC and the flags and runs word 1; otherwise it runs the
\* instruction at PC and leaves SPC and SZ, SN, SC, SV as they are.  In
\* particular no step that starts with I set modifies SPC or the shadow flags.
C6_EntryCondition ==
  last.op = "step" =>
    LET p == last.pre
    IN IF p.P /\ p.E /\ ~p.I
       THEN /\ ShadowIs(risc, p.PC, p.Z, p.N, p.C, p.V)
            /\ last.ok /\ last.ir = RamAt(p, 1)
       ELSE /\ ShadowIs(risc, p.SPC, p.SZ, p.SN, p.SC, p.SV)
            /\ last.ok => last.ir = IF ULt(p.PC, p.mem_size \div 4) THEN RamAt(p, p.PC)
                                   ELSE RomAt(p, p.PC - Shr(ROMStart, 2))

\* a step inside the handler with an interrupt pending and enabled: not entered again
C6_Witness ==
  /\ Stepped /\ last.pre.I /\ last.pre.P /\ last.pre.E
  /\ risc.SPC # last.pre.PC
  /\ risc.SPC = last.pre.SPC
  /\ last.ir = RamAt(last.pre, last.pre.PC)

\* C7: After every register-format instruction (each of the 16 opcodes, with any
\* modifier bits) and after every word or byte load, Z is set exactly when the
\* value now in R[a] is zero and N is bit 31 of that value.
C7_FlagsFollowRegister ==
  (Stepped /\ (~pbit(last.ir) \/ IsLoad(last.ir))) =>
    /\ risc.Z = (risc.R[RegA(last.ir)] = 0)
    /\ risc.N = (Hi(risc.R[RegA(last.ir)]) >= 32768)

\* a byte load of 0x80: N clear although the word loaded from has bit 31 set
C7_Witness ==
  /\ Stepped /\ IsLoad(last.ir) /\ vbit(last.ir)
  /\ risc.R[RegA(last.ir)] = 128
  /\ ~risc.Z /\ ~risc.N

\* C8: A signed DIV (u = 0) by a divisor b > 0 leaves in R[a] and H the q and r
\* with dividend = q * b + r and 0 <= r < b, that is the floored quotient and
\* the remainder of the dividend modulo b.
C8_SignedDivision ==
  (Stepped /\ ~pbit(last.ir) /\ OpOf(last.ir) = DIV /\ ~ubit(last.ir)
     /\ OperandC(last.pre, last.ir) > 0) =>
    LET x == last.pre.R[RegB(last.ir)]
        d == OperandC(last.pre, last.ir)
    IN /\ risc.R[RegA(last.ir)] = x \div d
       /\ risc.H = x % d
       /\ 0 <= risc.H /\ risc.H < d

\* -7 DIV 3 has given q = -3 and r = 2
C8_Witness ==
  /\ Stepped /\ ~pbit(last.ir) /\ OpOf(last.ir) = DIV /\ ~ubit(last.ir)
  /\ last.pre.R[RegB(last.ir)] = -7 /\ OperandC(last.pre, last.ir) = 3
  /\ risc.R[RegA(last.ir)] = -3 /\ risc.H = 2

\* x + y and x - y modulo 2^32, and whether the signed sum or difference leaves
\* the 32-bit range, computed without the machine's own adder
WrapSum(x, y) ==
  IF x >= 0 /\ y >= 0 /\ x > MaxInt32 - y THEN (x + MinInt32) + (y + MinInt32)
  ELSE IF x < 0 /\ y < 0 /\ x < MinInt32 - y THEN (x - MinInt32) + (y - MinInt32)
  ELSE x + y
WrapDiff(x, y) ==
  IF x >= 0 /\ y < 0 /\ x > MaxInt32 + y THEN (x + MinInt32) - (y - MinInt32)
  ELSE IF x < 0 /\ y >= 0 /\ x < MinInt32 + y THEN (x - MinInt32) - (y + MinInt32)
  ELSE x - y
HalfInRange(h) == h >= -1073741824 /\ h <= 1073741823
SumOverflows(x, y)  == ~HalfInRange((x \div 2) + (y \div 2) + (((x % 2) + (y % 2)) \div 2))
DiffOverflows(x, y) == ~HalfInRange((x \div 2) - (y \div 2) + (((x % 2) - (y % 2)) \div 2))
UnsignedLess(x, y)  == Hi(x) < Hi(y) \/ (Hi(x) = Hi(y) /\ Lo(x) < Lo(y))

\* C9: A plain ADD (u = 0) stores (b + c) mod 2^32, sets C to (result < b) as
\* unsigned numbers and V exactly on signed overflow; a plain SUB stores
\* (b - c) mod 2^32, sets C to (result > b) and V exactly on signed overflow.
C9_AddSubFlags ==
  (Stepped /\ ~pbit(last.ir) /\ ~ubit(last.ir) /\ OpOf(last.ir) \in {ADD, SUB}) =>
    LET x   == last.pre.R[RegB(last.ir)]
        y   == OperandC(last.pre, last.ir)
        res == risc.R[RegA(last.ir)]
    IN IF OpOf(last.ir) = ADD
       THEN /\ res = WrapSum(x, y)
            /\ risc.C = UnsignedLess(res, x)
            /\ risc.V = SumOverflows(x, y)
       ELSE /\ res = WrapDiff(x, y)
            /\ risc.C = UnsignedLess(x, res)
            /\ risc.V = DiffOverflows(x, y)

\* 0xFFFFFFFF + 1 has given 0 with Z = 1, N = 0, C = 1, V = 0
C9_Witness ==
  /\ Stepped /\ ~pbit(last.ir) /\ ~ubit(last.ir) /\ OpOf(last.ir) = ADD
  /\ last.pre.R[RegB(last.ir)] = -1 /\ OperandC(last.pre, last.ir) = 1
  /\ risc.R[RegA(last.ir)] = 0
  /\ risc.Z /\ ~risc.N /\ risc.C /\ ~risc.V

\* C10: For every RAM address a < mem_size, below or inside the framebuffer
\* region, a word load from a returns the word the latest store instruction
\* stored to a, and a byte load from a returns the byte the latest store
\* instruction stored to a, at each of the four byte positions.
C10_StoreThenLoad ==
  (Stepped /\ IsLoad(last.ir) /\ lastStore.valid
     /\ lastStore.byte = vbit(last.ir)
     /\ lastStore.addr = MemAddress(last.pre, last.ir)
     /\ UnsignedLess(lastStore.addr, last.pre.mem_size)) =>
    risc.R[RegA(last.ir)] = lastStore.val

\* the byte 0xEF stored to and loaded from the last byte of the framebuffer
C10_Witness ==
  /\ Stepped /\ IsLoad(last.ir) /\ vbit(last.ir)
  /\ lastStore.valid /\ lastStore.byte
  /\ lastStore.addr = MemAddress(last.pre, last.ir)
  /\ lastStore.addr = DefaultDisplayStart + 98303
  /\ lastStore.val = 239
  /\ risc.R[RegA(last.ir)] = 239

(***************************************************************************)
(* Claims about the display (checked under SpecVideo)                      *)
(***************************************************************************)
IsEmpty(rect) == rect.x1 > rect.x2 \/ rect.y1 > rect.y2

Least(S)    == CHOOSE x \in S : \A y \in S : x <= y
Greatest(S) == CHOOSE x \in S : \A y \in S : x >= y

BoundingBox(words) ==
  [x1 |-> Least({w[2] : w \in words}), y1 |-> Least({w[1] : w \in words}),
   x2 |-> Greatest({w[2] : w \in words}), y2 |-> Greatest({w[1] : w \in words})]

ExactBox(rect, words) ==
  IF words = {} THEN IsEmpty(rect) ELSE rect = BoundingBox(words)

C12_SecondReadoutEmpty ==
  readout.n >= 2 /\ readout.since.words = {} /\ ~readout.since.palette
    => IsEmpty(readout.rect)

\* two read-outs in a row in the 8-bit mode of 640x480 set through port 48
C12_Witness ==
  /\ readout.n = 2
  /\ readout.since = NoPending
  /\ risc.current_mode = [index |-> Mk(33088, 480), width |-> 640, height |-> 480, depth |-> 8]
  /\ readout.span = 160
  /\ IsEmpty(readout.rect)

(***************************************************************************)
(* Claims about the host-FS bridge (checked under SpecHostFS)              *)
(***************************************************************************)
Inserted == fsop.op = 4 /\ FirstChar(fsop.slot) = "~"
SearchNow(name) == hostfs_search_file(hostfs, hdir, name).sector

\* C13 as stated: after Insert of a sector s whose slot has a name that starts
\* with '~', under a name n, Search for n returns s.
C13_Original ==
  Inserted => SearchNow(fsop.name) = fsop.word

\* C13, amended: after Insert of a sector s whose slot has a name that starts
\* with '~', under a name n that does not start with '~' and whose path
\* dirname/n is shorter than 256 characters, Search for n returns s, also when
\* a file named n existed and was tracked in another slot.
C13_Amended ==
  Inserted /\ FirstChar(fsop.name) # "~" /\ Fits(hostfs, fsop.name)
    => SearchNow(fsop.name) = fsop.word

\* Ab was tracked in slot 1 and is overwritten by the Insert of slot 2
C13_Witness ==
  /\ Inserted
  /\ fsop.name = NameAb
  /\ fsop.word = HOSTFS_SECTOR_MAGIC + 2
  /\ hostfs.names[2] = NameOvW
  /\ SearchNow(NameAb) = HOSTFS_SECTOR_MAGIC + 2

\* a slot in use stays in use, for the same file (inode); its name changes
\* only to a tombstone, or to the name it is inserted under
SlotKept(k) ==
  /\ k <= Len(hostfs'.names)
  /\ hostfs'.names[k] # Null
  /\ InodeOf(hdir', hostfs'.full[k]) = InodeOf(hdir, hostfs.full[k])
  /\ hostfs'.names[k] # hostfs.names[k]
       => \/ fsop'.op = 5 /\ hostfs'.names[k] = NameDel
          \/ fsop'.op = 4 /\ hostfs'.names[k] = NameOvW
          \/ fsop'.op = 4 /\ fsop'.word = HOSTFS_SECTOR_MAGIC + k - 1
               /\ hostfs'.names[k] = fsop'.name

SlotsKept ==
  /\ Len(hostfs'.names) >= Len(hostfs.names)
  /\ \A k \in 1 .. Len(hostfs.names) : hostfs.names[k] # Null => SlotKept(k)

\* C14: once a sector number has been returned for a file, its slot is never
\* removed, moved or reused for another file; Delete and an overwriting Insert
\* only replace the slot's names by a tombstone, and the slot count never
\* decreases.
C14_SectorIdentity == [][SlotsKept]_vars

\* the same while no Insert has been given a name that starts with '~'
C14_PlainNames == [][~fsop'.tilde => SlotsKept]_vars

\* what the calls of the current enumeration have returned so far against the
\* matching entries of the directory, in order, followed by sector 0
ListedExactly ==
  \A i \in DOMAIN listing.calls :
    IF i <= Len(listing.expect)
    THEN listing.calls[i].sector # 0 /\ listing.calls[i].name = listing.expect[i]
    ELSE listing.calls[i].sector = 0

\* C15 as stated: after Enumerate-start with prefix p, that call and the following
\* Enumerate-next calls return exactly the entries whose name starts with p and
\* not with '~' or '.', once each, with a non-zero sector and the name, in
\* directory order; the call after the last match returns sector 0.
C15_Original == listing.valid => ListedExactly

\* C15 amended: the same, provided the path of every matching entry fits the
\* 256-character buffer and the slot table has room for one more name.
C15_Amended ==
  (/\ listing.valid
   /\ \A i \in DOMAIN listing.expect : Fits(hostfs, listing.expect[i])
   /\ Len(hostfs.names) < MAX_HOSTFS_FILES - 1) => ListedExactly

\* the enumeration of prefix "A" has returned Aa, then Ab, then sector 0
C15_Witness ==
  /\ listing.valid /\ listing.prefix = << "A" >>
  /\ Len(listing.calls) = 3
  /\ listing.calls[1].name = NameAa /\ listing.calls[1].sector # 0
  /\ listing.calls[2].name = NameAb /\ listing.calls[2].sector # 0
  /\ listing.calls[2].sector # listing.calls[1].sector
  /\ listing.calls[3].sector = 0

(***************************************************************************)
(* The memory map, seen by the last step: the instruction it fetched and,  *)
(* for a load, the value that arrived in the register.                     *)
(***************************************************************************)
Entered  == irq_entry(last.pre)                  \* the state the fetch was made in
StepMade == last.op = "step"
InRAM(a) == ULt(a, last.pre.mem_size)
InROM(a) == ~ULt(a, ROMStart)                    \* ROMStart + 4 * ROMWords = 2^32
PcInRAM  == ULt(Entered.PC, last.pre.mem_size \div 4)
PcInROM  == ~ULt(Entered.PC, Shr(ROMStart, 2)) /\ ULt(Entered.PC, Shr(ROMStart, 2) + ROMWords)
LoadDone == Stepped /\ IsLoad(last.ir)
LoadAddr == MemAddress(Entered, last.ir)
LoadedAs(word) ==
  risc.R[RegA(last.ir)] = IF vbit(last.ir) THEN U8(Shr(word, (LoadAddr % 4) * 8)) ELSE word
RomWordAt(a) == RomAt(last.pre, Shr(Sub32(a, ROMStart), 2))

FetchMap ==
  /\ (StepMade /\ PcInRAM) => last.ok /\ last.ir = RamAt(last.pre, Entered.PC)
  /\ (StepMade /\ PcInROM) => last.ok /\ last.ir = RomAt(last.pre, Entered.PC - Shr(ROMStart, 2))
  /\ (StepMade /\ ~PcInRAM /\ ~PcInROM) => ~last.ok
LoadFromRAM ==
  (LoadDone /\ InRAM(LoadAddr)) => LoadedAs(RamAt(last.pre, Shr(LoadAddr, 2)))

\* C16 as stated: an access below mem_size hits RAM, an access from ROMStart on hits
\* the ROM (a load returns the ROM word at (a - ROMStart)/4), anything else is
\* MMIO or undefined.
C16_Original ==
  /\ FetchMap
  /\ LoadFromRAM
  /\ (LoadDone /\ InROM(LoadAddr)) => LoadedAs(RomWordAt(LoadAddr))

\* C16 amended: instruction fetches follow that map; loads below mem_size read RAM;
\* a load from ROMStart on never reads the ROM: it reads the palette entry inside
\* the palette window and 0 between ROMStart and the palette and between the
\* palette and the ports.
C16_Amended ==
  /\ FetchMap
  /\ LoadFromRAM
  /\ (LoadDone /\ InPalette(LoadAddr))
       => LoadedAs(PalAt(last.pre, Shr(Sub32(LoadAddr, PaletteStart), 2)))
  /\ (LoadDone /\ ~InRAM(LoadAddr) /\ ~InPalette(LoadAddr) /\ ULt(LoadAddr, IOStart))
       => LoadedAs(0)

\* a word load from ROMStart has put 0 into the register although the first word
\* of the ROM is not 0
C16_Witness ==
  /\ LoadDone /\ ~vbit(last.ir) /\ LoadAddr = ROMStart
  /\ risc.R[RegA(last.ir)] = 0 /\ RomWordAt(ROMStart) # 0

\* an instruction has been fetched from the ROM
C16_FetchedFromROM == StepMade /\ PcInROM /\ last.ok /\ last.ir = Mk(16384, 0)

\* C17: a step that enters no interrupt and finds PC neither below mem_size/4 nor
\* in the ROM sets PC to ROMStart/4 and changes nothing else of the machine.
C17_VoidStepResets ==
  (StepMade /\ Entered = last.pre /\ ~PcInRAM /\ ~PcInROM)
    => risc = [last.pre EXCEPT !.PC = Shr(ROMStart, 2)]

\* the step after a branch to the word just below the ROM, with data in the registers
C17_Witness ==
  /\ StepMade /\ Entered = last.pre /\ ~PcInRAM /\ ~PcInROM
  /\ last.pre.PC = Shr(ROMStart - 4, 2)
  /\ risc.PC = Shr(ROMStart, 2) /\ risc.R[1] = 5

(***************************************************************************)
(* Claims about risc_run and the keyboard (SpecIdle, SpecIdleFair, SpecKeys) *)
(***************************************************************************)
ProgressBounded ==
  /\ risc.progress \in 0 .. 20
  /\ run.i <= run.cycles
  /\ run.active => risc.progress = 20 - run.idle
LoopOver == run.active /\ (run.idle >= 20 \/ run.i >= run.cycles)

\* C18: risc_run(cycles) sets progress to 20, runs at most cycles steps, takes no
\* further step once 20 idle reads have occurred during the call, keeps progress
\* within 0..20, and always returns.
C18_RunTerminates ==
  /\ []ProgressBounded
  /\ [][LoopOver => ~run'.active]_vars
  /\ (run.active ~> ~run.active)

\* a call with 45 cycles has returned after 39 steps, at the 20th read of the
\* millisecond counter
C18_Witness ==
  /\ ~run.active /\ nruns > 0
  /\ run.cycles = 45 /\ run.i = 39 /\ run.idle = 20 /\ risc.progress = 0

\* a call has returned because its cycles were used up
C18_CyclesUsedUp == ~run.active /\ run.cycles = 25 /\ run.i = 25 /\ risc.progress > 0

OfferFits == Len(keys.before) + Len(keys.batch) <= KeyBufSize

\* C19: the bytes read from port 28 are the accepted bytes in the order of their
\* acceptance; a batch is appended whole when it fits in the free space of the
\* 16-byte buffer and is otherwise dropped whole with the buffer unchanged; the
\* queue never holds more than 16 bytes; a read from the empty queue returns 0 and
\* changes nothing.
C19_KeyboardFifo ==
  /\ keys.taken \o risc.key_buf = keys.accepted
  /\ Len(risc.key_buf) <= KeyBufSize
  /\ keys.what = "offer"
       => risc.key_buf = IF OfferFits THEN keys.before \o keys.batch ELSE keys.before
  /\ keys.what = "empty"
       => keys.val = 0 /\ risc.key_buf = << >> /\ keys.left = keys.progress

\* two bytes of an accepted batch have been read in order, more are queued, and a
\* later batch that did not fit has been dropped
C19_Witness ==
  /\ Len(keys.taken) >= 2 /\ keys.taken = SubSeq(keys.accepted, 1, Len(keys.taken))
  /\ keys.taken[1] # keys.taken[2]
  /\ keys.what = "offer" /\ ~OfferFits /\ risc.key_buf = keys.before
  /\ Len(risc.key_buf) > 8

\* a read of port 28 has found the queue empty
C19_EmptyRead == keys.what = "empty" /\ Len(keys.accepted) > 0

\* a batch has filled the buffer to its last byte
C19_FullBuffer == keys.what = "offer" /\ OfferFits /\ Len(risc.key_buf) = KeyBufSize

(***************************************************************************)
(* Claims about the hardware enumerator (SpecEnum)                         *)
(***************************************************************************)
\* whether the machine has the peripheral a tag names
Installed(r, tag) ==
  CASE tag = HW_ENUM_ID("m", "V", "i", "d") -> r.modes_by_depth[1] > 0
    [] tag = HW_ENUM_ID("m", "D", "y", "n") -> r.modes_by_depth[1] > 0 /\ r.screen_dynsize
    [] tag = HW_ENUM_ID("1", "6", "c", "V") -> r.modes_by_depth[2] > 0
    [] tag = HW_ENUM_ID("1", "6", "c", "D") -> r.modes_by_depth[2] > 0 /\ r.screen_dynsize
    [] tag = HW_ENUM_ID("8", "b", "c", "V") -> r.modes_by_depth[3] > 0
    [] tag = HW_ENUM_ID("8", "b", "c", "D") -> r.modes_by_depth[3] > 0 /\ r.screen_dynsize
    [] tag = HW_ENUM_ID("L", "E", "D", "s") -> r.leds
    [] tag = HW_ENUM_ID("S", "P", "r", "t") -> r.serial
    [] tag = HW_ENUM_ID("v", "C", "l", "p") -> r.clipboard
    [] tag = HW_ENUM_ID("v", "D", "s", "k") -> r.spi[1] = "pvdisk"
    [] tag = HW_ENUM_ID("H", "s", "F", "s") -> r.hostfs
    [] tag = HW_ENUM_ID("v", "H", "T", "x") -> r.hosttransfer
    [] OTHER -> TRUE

\* the words read since the request are the words of its reply, in order, then 0
Drained ==
  \A i \in DOMAIN hw.reads :
    hw.reads[i] = IF i <= Len(risc.hwenum_buf) THEN risc.hwenum_buf[i] ELSE 0
ReadSoFar == risc.hwenum_idx = IF Len(hw.reads) < Len(risc.hwenum_buf)
                               THEN Len(hw.reads) ELSE Len(risc.hwenum_buf)

\* C20 as stated: a write to port 60 discards the unread reply and builds a new one;
\* the reads that follow return its words in order, one per read, and 0 after the
\* last; an unknown tag, or the tag of a peripheral that is not installed, gets an
\* empty reply.
C20_Original ==
  hw.valid =>
    /\ Drained /\ ReadSoFar
    /\ (hw.tag \notin Tags \/ ~Installed(risc, hw.tag)) => risc.hwenum_buf = << >>

\* C20 amended: the same, except that the tag 8bcD gets its reply whenever 4-bit
\* modes and dynamic sizes are configured, whether or not 8-bit modes are.
C20_Amended ==
  hw.valid =>
    /\ Drained /\ ReadSoFar
    /\ (hw.tag # HW_ENUM_ID("8", "b", "c", "D")
          /\ (hw.tag \notin Tags \/ ~Installed(risc, hw.tag))) => risc.hwenum_buf = << >>

\* a second request came while words of the first reply were unread, and its two
\* words have been read, followed by a 0
C20_Witness ==
  /\ hw.valid /\ hw.unread /\ hw.tag = HW_ENUM_ID("M", "s", "K", "b")
  /\ hw.reads = << -40, -36, 0 >>

(***************************************************************************)
(* Accesses past the RAM that reach no palette entry and no port           *)
(***************************************************************************)
ReadablePorts == {0, 4, 8, 12, 16, 20, 24, 28, 40, 44, 48, 60}       \* cases of risc_load_io
WritablePorts == {4, 8, 16, 20, 32, 36, 40, 44, 48, 52, 60}          \* cases of risc_store_io
AccessAddr  == MemAddress(Entered, last.ir)
PastAll     == ~InRAM(AccessAddr) /\ ~InPalette(AccessAddr)
NothingRead == Stepped /\ IsLoad(last.ir) /\ PastAll
                 /\ Sub32(AccessAddr, IOStart) \notin ReadablePorts
NothingWritten == Stepped /\ IsStore(last.ir) /\ PastAll
                    /\ Sub32(AccessAddr, IOStart) \notin WritablePorts

\* C21: a load from an address >= mem_size that is no palette address and no
\* readable port returns 0, a store to one that is no palette address and no
\* writable port does nothing; apart from the destination register (and the Z and
\* N it sets) and the PC the machine is as before.
C21_UnmappedAccess ==
  /\ NothingRead => risc = [Entered EXCEPT !.PC = Add32(@, 1), !.R[RegA(last.ir)] = 0,
                                           !.Z = TRUE, !.N = FALSE]
  /\ NothingWritten => risc = [Entered EXCEPT !.PC = Add32(@, 1)]

\* a word store to the first address past the RAM has changed nothing
C21_Witness ==
  /\ NothingWritten /\ ~vbit(last.ir) /\ AccessAddr = DefaultMemSize
  /\ last.pre.R[RegA(last.ir)] # 0 /\ risc.RAM = last.pre.RAM /\ risc.progress = 20

\* a word load from the write-only port 32 has returned 0 with a key still queued
C21_LoadedZero ==
  /\ NothingRead /\ ~vbit(last.ir) /\ AccessAddr = IOStart + 32
  /\ last.pre.R[RegA(last.ir)] # 0 /\ risc.R[RegA(last.ir)] = 0 /\ risc.key_buf = << 28 >>

(***************************************************************************)
(* The slot table at capacity                                              *)
(***************************************************************************)
TableFull(h)  == Len(h.names) >= MAX_HOSTFS_FILES - 1
HasSlot(h, n) == \E i \in DOMAIN h.names : h.names[i] # Null /\ h.names[i] = n

\* the file name a request hands to hostfs_search_file
LookedUp(op, name, out, d) ==
  CASE op \in {0, 5} -> name
    [] op \in {1, 2} -> out
    [] op = 6       -> d.files[Len(d.files)].name
    [] OTHER        -> << >>

\* C22: with the slot table full, Search, Enumerate, Delete and New for a file
\* that has no slot return sector 0 and leave the table as it is; the table
\* never grows to a slot index of 4096 or more
C22_TableFull ==
  [][/\ (/\ TableFull(hostfs) /\ fsop'.op \in {0, 1, 2, 5, 6}
          /\ ~HasSlot(hostfs, LookedUp(fsop'.op, fsop'.name, fsop'.out, hdir')))
        => /\ fsop'.sector = 0
           /\ hostfs'.names = hostfs.names
           /\ hostfs'.full = hostfs.full
     /\ Len(hostfs'.names) <= MAX_HOSTFS_FILES
     /\ Len(hostfs'.full) <= MAX_HOSTFS_FILES]_vars

\* a Search for a file of the directory was turned down by the full table
C22_Witness ==
  /\ TableFull(hostfs) /\ fsop.op = 0 /\ fsop.sector = 0
  /\ FileExists(hdir, fsop.name) /\ Fits(hostfs, fsop.name) /\ ~HasSlot(hostfs, fsop.name)

\* the same for Delete, New and an enumeration that found an entry
C22_DeleteRefused ==
  /\ TableFull(hostfs) /\ fsop.op = 5 /\ fsop.sector = 0 /\ FileExists(hdir, fsop.name)
C22_NewRefused ==
  /\ TableFull(hostfs) /\ fsop.op = 6 /\ fsop.sector = 0
  /\ FileExists(hdir, NameNew \o << "~" >> \o fsop.name \o << "_", Suffix[hdir.next - 1] >>)
C22_EnumerateRefused ==
  /\ TableFull(hostfs) /\ fsop.op \in {1, 2} /\ fsop.sector = 0
  /\ FileExists(hdir, fsop.out) /\ ~HasSlot(hostfs, fsop.out)

(***************************************************************************)
(* Reads and writes the host cannot serve                                  *)
(***************************************************************************)
OutsideBuffer(i) == \A a \in Buffers : i < Shr(a, 2) \/ i >= Shr(a, 2) + 2

\* C23: a Read or Write whose slot has no file to open (never assigned, or
\* the file is gone) is ignored: the emulator keeps running, and RAM outside
\* the guest's buffer is as it was
C23_FailureIgnored ==
  (fsop.op \in {7, 8} /\ fsop.failed)
    => /\ fsop.alive
       /\ \A i \in DOMAIN risc.RAM \cup DOMAIN fsop.ram :
            OutsideBuffer(i) => i \in DOMAIN risc.RAM /\ i \in DOMAIN fsop.ram
                                /\ risc.RAM[i] = fsop.ram[i]

\* what does hold: a request the host can serve, or one whose sector is past
\* the table, leaves the emulator running
C23_ServedRequests ==
  (fsop.op \in {7, 8} /\ ~fsop.failed) => fsop.alive

\* a Read of gap slot 0, and a Read of a slot whose file was removed, that passed
C23_GapSlotRead ==
  /\ fsop.op = 7 /\ fsop.failed /\ fsop.alive /\ fsop.slot = Null
  /\ fsop.word = HOSTFS_SECTOR_MAGIC /\ risc.RAM = fsop.ram
C23_MissingFileRead ==
  /\ fsop.op = 7 /\ fsop.failed /\ fsop.alive /\ fsop.slot = NameAa
  /\ ~FileExists(hdir, NameAa) /\ risc.RAM = fsop.ram
\* a Read that brought in the end of a file, leaving the rest of the buffer
C23_PartialRead ==
  /\ fsop.op = 7 /\ ~fsop.failed /\ fsop.slot = NameAa
  /\ RamAt(risc, 1024) = Mk(26197, 17459) /\ RamAt(risc, 1025) = Mk(45746, 46004)

(***************************************************************************)
(* IRET, STI and CLI                                                       *)
(***************************************************************************)
Always(ir) == pbit(ir) /\ qbit(ir) /\ (Hi(ir) \div 256) % 8 = 7   \* condition index 7
Bit4(ir)   == (Lo(ir) \div 16) % 2 = 1
Bit5(ir)   == (Lo(ir) \div 32) % 2 = 1
Fetched    == [Entered EXCEPT !.PC = Add32(@, 1)]
Restored(r) ==
  [r EXCEPT !.PC = r.SPC, !.Z = r.SZ, !.N = r.SN, !.C = r.SC, !.V = r.SV,
            !.I = FALSE, !.P = FALSE]
EnableSet(r, ir) == [r EXCEPT !.E = (Lo(ir) % 2 = 1)]

\* C24 as stated: a branch with condition index 7, u = 0 and bit 4 set is an
\* IRET (PC from SPC, Z, N, C, V from SZ, SN, SC, SV, I and P cleared); with
\* bit 4 clear and bit 5 set it sets E to bit 0 and changes nothing else but
\* the incremented PC
C24_Original ==
  (Stepped /\ Always(last.ir) /\ ~ubit(last.ir)) =>
    /\ Bit4(last.ir) => risc = Restored(Fetched)
    /\ (~Bit4(last.ir) /\ Bit5(last.ir)) => risc = EnableSet(Fetched, last.ir)

\* C24 amended: bit 4 makes the branch an IRET only in interrupt mode (I set
\* when the instruction executes); otherwise bit 5 makes it STI/CLI whatever
\* bit 4 is, and with bit 5 clear it is the ordinary branch to R[c] / 4
C24_Amended ==
  (Stepped /\ Always(last.ir) /\ ~ubit(last.ir)) =>
    /\ (Bit4(last.ir) /\ Entered.I) => risc = Restored(Fetched)
    /\ ((~Bit4(last.ir) \/ ~Entered.I) /\ Bit5(last.ir))
         => risc = EnableSet(Fetched, last.ir)
    /\ (Bit4(last.ir) /\ ~Entered.I /\ ~Bit5(last.ir)
          /\ ~vbit(last.ir) /\ (Hi(last.ir) \div 2048) % 2 = 0)
         => risc = [Fetched EXCEPT !.PC = Shr(Fetched.R[RegC(last.ir)], 2)]

\* an IRET in a handler that had changed the flags; STI and CLI in the main program
C24_Witness ==
  /\ Stepped /\ last.ir = InsIRET /\ Entered.I /\ ~risc.I
  /\ risc.PC = Entered.SPC /\ risc.PC # Fetched.PC
  /\ <<Entered.Z, Entered.C>> # <<Entered.SZ, Entered.SC>>
  /\ risc.Z = Entered.SZ /\ risc.C = Entered.SC
C24_EnableChanged ==
  /\ Stepped /\ last.ir \in {InsSTI, InsCLI} /\ risc.E # Entered.E
  /\ risc = EnableSet(Fetched, last.ir)
\* bit 4 outside interrupt mode: a branch to R0 / 4, and with bit 5 an STI
C24_NotInHandler ==
  /\ Stepped /\ last.ir = InsIRET /\ ~Entered.I
  /\ risc.PC = Shr(Entered.R[0], 2) /\ risc.PC # Entered.SPC
C24_EnableByBit5 ==
  /\ Stepped /\ last.ir = InsIRETE /\ ~Entered.I /\ ~Entered.E /\ risc.E
  /\ risc.PC = Fetched.PC

(***************************************************************************)
(* ADD and SUB with carry                                                  *)
(***************************************************************************)
WithCarry  == Stepped /\ ~pbit(last.ir) /\ ubit(last.ir) /\ OpOf(last.ir) \in {ADD, SUB}
OperandB   == last.pre.R[RegB(last.ir)]
SecondOperand  == OperandC(last.pre, last.ir)
CarryIn    == Bit(last.pre.C)
\* b + c + Cin and b - c - Cin over the integers, in 16-bit halves
LoSum      == Lo(OperandB) + Lo(SecondOperand) + CarryIn
HiSum      == Hi(OperandB) + Hi(SecondOperand) + LoSum \div H16
LoDiff     == Lo(OperandB) - Lo(SecondOperand) - CarryIn
HiDiff     == Hi(OperandB) - Hi(SecondOperand) + LoDiff \div H16
ResultIsSum ==
  IF OpOf(last.ir) = ADD
  THEN risc.R[RegA(last.ir)] = Mk(HiSum % H16, LoSum % H16)
  ELSE risc.R[RegA(last.ir)] = Mk(HiDiff % H16, LoDiff % H16)
CarryOut == IF OpOf(last.ir) = ADD THEN HiSum >= H16 ELSE HiDiff < 0

\* C25: ADD with u = 1 gives (b + c + Cin) mod 2^32 with C the carry out of
\* that sum; SUB with u = 1 gives (b - c - Cin) mod 2^32 with C the borrow
\* (b < c + Cin); for all b, c and both values of the incoming C
C25_CarryChain ==
  WithCarry => ResultIsSum /\ risc.C = CarryOut

\* what holds: the result always, and the carry or borrow unless c + Cin = 2^32
C25_CarryUnlessWrapped ==
  WithCarry => /\ ResultIsSum
               /\ ~(SecondOperand = -1 /\ CarryIn = 1) => risc.C = CarryOut
               /\ (SecondOperand = -1 /\ CarryIn = 1) => ~risc.C /\ CarryOut

\* a carry and a borrow that came from the incoming C alone
C25_CarryFromCarryIn ==
  /\ WithCarry /\ OpOf(last.ir) = ADD /\ OperandB = -1 /\ SecondOperand = 0 /\ CarryIn = 1
  /\ risc.C /\ risc.R[RegA(last.ir)] = 0
C25_BorrowFromCarryIn ==
  /\ WithCarry /\ OpOf(last.ir) = SUB /\ OperandB = 0 /\ SecondOperand = 0 /\ CarryIn = 1
  /\ risc.C /\ risc.R[RegA(last.ir)] = -1

(***************************************************************************)
(* The second operand of a register instruction, seen through MOV (which   *)
(* stores it) and through a plain ADD (which adds it to R[b])              *)
(***************************************************************************)
ShowsOperand ==
  Stepped /\ ~pbit(last.ir) /\ ~ubit(last.ir) /\ OpOf(last.ir) \in {MOV, ADD}
Shown(c_val) ==
  risc.R[RegA(last.ir)] = IF OpOf(last.ir) = MOV THEN c_val ELSE WrapSum(OperandB, c_val)
Immediate == Lo(last.ir)
SignExtended(im) == Mk(IF im >= 32768 THEN 65535 ELSE 0, im)
OnesExtended(im) == Mk(65535, im)

\* C26 as stated: with q = 1 the second operand is the 16-bit immediate,
\* zero-extended when v = 0 and sign-extended (upper half equal to bit 15 of
\* the immediate) when v = 1; with q = 0 it is R[c]
C26_Original ==
  ShowsOperand =>
    IF ~qbit(last.ir) THEN Shown(last.pre.R[RegC(last.ir)])
    ELSE IF ~vbit(last.ir) THEN Shown(Mk(0, Immediate))
    ELSE Shown(SignExtended(Immediate))

\* C26 amended: with q = 1 and v = 1 the upper 16 bits of the operand are all
\* ones, whatever bit 15 of the immediate is
C26_Amended ==
  ShowsOperand =>
    IF ~qbit(last.ir) THEN Shown(last.pre.R[RegC(last.ir)])
    ELSE IF ~vbit(last.ir) THEN Shown(Mk(0, Immediate))
    ELSE Shown(OnesExtended(Immediate))

\* MOV with v = 1 of an immediate whose bit 15 is clear has stored 0xFFFF0001
C26_Witness ==
  /\ ShowsOperand /\ OpOf(last.ir) = MOV /\ qbit(last.ir) /\ vbit(last.ir)
  /\ Immediate = 1 /\ risc.R[RegA(last.ir)] = Mk(65535, 1) /\ risc.N
\* the immediate 0xFFFF zero-extended, and a register operand
C26_ZeroExtended ==
  /\ ShowsOperand /\ OpOf(last.ir) = MOV /\ qbit(last.ir) /\ ~vbit(last.ir)
  /\ Immediate = 65535 /\ risc.R[RegA(last.ir)] = 65535 /\ ~risc.N
C26_RegisterOperand ==
  /\ ShowsOperand /\ OpOf(last.ir) = MOV /\ ~qbit(last.ir)
  /\ risc.R[RegA(last.ir)] = MinInt32 /\ last.pre.R[RegC(last.ir)] = MinInt32

(***************************************************************************)
(* The Command phase of the disk                                           *)
(***************************************************************************)
\* a step that is one disk_write, and the value it wrote
Wrote   == nwr' # nwr
Written == IF queue # << >> THEN Head(queue) ELSE 255
\* disk_run_command has run in this step: the reply is armed at index -1
Ran     == disk'.tx_idx = -1 /\ disk'.tx_cnt >= 1 /\ disk'.tx_buf[0] = 0
Accumulated ==
  /\ disk'.rx_buf = [disk.rx_buf EXCEPT ![disk.rx_idx] = Written]
  /\ IF disk.rx_idx = 5
     THEN Ran /\ disk'.rx_idx = 0
     ELSE ~Ran /\ disk'.rx_idx = disk.rx_idx + 1 /\ disk'.state = "Command"
PassedOver ==
  /\ disk'.rx_buf = disk.rx_buf /\ disk'.rx_idx = disk.rx_idx
  /\ ~Ran /\ disk'.state = "Command"

\* C27 as stated: in the Command phase every written byte other than 0xFF is
\* accumulated into rx_buf and 0xFF bytes are not; the command runs exactly
\* at the sixth accumulated byte, and accumulation starts again from zero
C27_Original ==
  [][(Wrote /\ disk.state = "Command")
       => IF U8(Written) # 255 THEN Accumulated ELSE PassedOver]_vars

\* C27 amended: a 0xFF is passed over only while no byte of a command has
\* been accumulated (rx_idx = 0); once a command has begun, 0xFF bytes are
\* accumulated like any other
C27_Amended ==
  [][(Wrote /\ disk.state = "Command")
       => IF U8(Written) # 255 \/ disk.rx_idx # 0 THEN Accumulated ELSE PassedOver]_vars

\* a command has just run on a 0xFF as its sixth byte
C27_Witness ==
  /\ lastCmd # NoCmd /\ nwr = 0 /\ lastCmd.arg # 0
  /\ disk.rx_idx = 0 /\ disk.rx_buf[5] = 255 /\ disk.rx_buf[0] = lastCmd.cmd
  /\ disk.tx_idx = -1
\* an idle 0xFF between commands was passed over
C27_IdlePassedOver ==
  /\ lastCmd # NoCmd /\ nwr > 0 /\ disk.state = "Command" /\ disk.rx_idx = 0
  /\ queue = << >> /\ disk.tx_idx >= disk.tx_cnt

(***************************************************************************)
(* Mode-switch requests with dynamic sizes                                 *)
(***************************************************************************)
ModeStore  == Stepped /\ IsStore(last.ir) /\ ~vbit(last.ir) /\ AccessAddr = IOStart + 48
Requested  == Entered.R[RegA(last.ir)]
ReqMode    == Shr(Requested, 30)
ReqWidth   == Shr(Requested, 15) % 32768
ReqHeight  == Lo(Requested) % 32768
Listed     == \E k \in DOMAIN last.pre.modes : last.pre.modes[k].index = Requested
\* a request for a size of its own (0 x 0 asks for the size of the host window)
DynRequest == ModeStore /\ last.pre.screen_dynsize /\ ~Listed
                /\ ~(ReqWidth = 0 /\ ReqHeight = 0)
WithinBounds(maxheight) ==
  /\ ReqMode \in 1 .. 3
  /\ ReqWidth % 32 = 0 /\ ReqWidth <= 2048
  /\ ReqHeight <= maxheight
DepthOf(mode) == CASE mode = 1 -> 1 [] mode = 2 -> 8 [] mode = 3 -> 4 [] OTHER -> 0
Taken ==
  /\ risc.current_mode.width = ReqWidth /\ risc.current_mode.height = ReqHeight
  /\ risc.current_mode.depth = DepthOf(ReqMode)
  /\ risc.current_mode_span = ReqWidth \div (32 \div DepthOf(ReqMode))
Refused ==
  /\ risc.current_mode = last.pre.current_mode
  /\ risc.current_mode_span = last.pre.current_mode_span

\* C28: with dynamic sizes, a mode-switch value that is no listed index, with
\* depth bits 1, 2 or 3, a width that is a multiple of 32 and at most 2048 and
\* a height of at most 2048 is accepted (that width and height, depth 1, 8 or
\* 4, span width / (32 / depth)); any other request leaves the mode unchanged
C28_DynamicMode ==
  DynRequest => IF WithinBounds(2048) THEN Taken ELSE Refused

\* what holds: the same with heights up to 2045 only
C28_HeightsTo2045 ==
  DynRequest => IF WithinBounds(2045) THEN Taken ELSE Refused

\* 2048 x 2045 at 8 bits taken; 1024 x 2048 at 1 bit refused
C28_TallestTaken ==
  /\ DynRequest /\ ReqWidth = 2048 /\ ReqHeight = 2045 /\ ReqMode = 2 /\ Taken
  /\ risc.current_mode_span = 512 /\ risc.current_mode # last.pre.current_mode
C28_AdvertisedRefused ==
  /\ DynRequest /\ ReqWidth = 1024 /\ ReqHeight = 2048 /\ ReqMode = 1 /\ Refused
  /\ risc.current_mode = DefaultMode

(***************************************************************************)
(* Insert                                                                  *)
(***************************************************************************)
InsertStep == fsop'.op = 4 /\ nfs' = nfs + 1
Live(n)    == n # Null /\ FirstChar(n) # "~"
\* the referenced sector is an assigned slot whose name starts with '~'
Eligible   == fsop'.slot # Null /\ FirstChar(fsop'.slot) = "~"
Untouched  == hostfs'.names = hostfs.names /\ hostfs'.full = hostfs.full /\ hdir' = hdir
SlotAsBefore(i) == hostfs'.names[i] = hostfs.names[i] /\ hostfs'.full[i] = hostfs.full[i]
\* slot i holds the inserted name, whose file is on the host: it is in the way
InTheWay(i) ==
  /\ Eligible /\ Fits(hostfs, fsop'.name) /\ FileExists(hdir, fsop'.name)
  /\ hostfs.names[i] = fsop'.name
  /\ \A j \in 1 .. i - 1 : hostfs.names[j] # fsop'.name

\* C29 as stated: Insert changes neither the host directory nor the slot table
\* unless the referenced sector is an assigned slot whose name starts with '~'
\* (an out-of-range sector is a no-op), and no slot that holds a live name is
\* ever renamed or overwritten through Insert
C29_Original ==
  [][InsertStep =>
       /\ ~Eligible => Untouched
       /\ \A i \in DOMAIN hostfs.names : Live(hostfs.names[i]) => SlotAsBefore(i)]_vars

\* C29 amended: through its own sector a live slot is never changed, but an
\* Insert into a '~' slot under the name a live slot holds turns that live
\* slot into a "~OvW" slot and moves its file aside
C29_Amended ==
  [][InsertStep =>
       /\ ~Eligible => Untouched
       /\ \A i \in DOMAIN hostfs.names :
            Live(hostfs.names[i]) =>
              IF InTheWay(i)
              THEN /\ hostfs'.names[i] = NameOvW
                   /\ StartsWith(hostfs'.full[i], NameOvW)
                   /\ FileExists(hdir', hostfs'.full[i])
              ELSE SlotAsBefore(i)]_vars

\* an Insert on the sector of a live slot, which has left slot and file alone
C29_Witness ==
  /\ fsop.op = 4 /\ fsop.slot = NameAa /\ fsop.name = NameAb
  /\ SlotOf(hostfs, fsop.word) = NameAa /\ FileExists(hdir, NameAa)
\* an Insert on a sector past the table
C29_OutOfRange ==
  /\ fsop.op = 4 /\ fsop.word = HOSTFS_SECTOR_MAGIC + 2 /\ Len(hostfs.names) = 2
\* an Insert into a '~' slot that has turned the live slot of "Ab" into "~OvW"
C29_LiveSlotOverwritten ==
  /\ fsop.op = 4 /\ fsop.name = NameAb /\ fsop.slot # Null /\ FirstChar(fsop.slot) = "~"
  /\ \E i \in DOMAIN hostfs.names : hostfs.names[i] = NameOvW
  /\ SlotOf(hostfs, fsop.word) = NameAb

(***************************************************************************)
(* Delete                                                                  *)
(***************************************************************************)
DeleteStep == fsop'.op = 5 /\ nfs' = nfs + 1
Deleted    == fsop'.name
\* the slots that hold the name, and the host path Delete finds the file at
SlotsOf(h, n) == {i \in DOMAIN h.names : h.names[i] # Null /\ h.names[i] = n}
PathOf(h, n)  == IF SlotsOf(h, n) = {} THEN n ELSE h.full[MinOf(SlotsOf(h, n))]
Resolves   == fsop'.sector # 0 /\ FileExists(hdir, PathOf(hostfs, Deleted))
TombSlot   == fsop'.sector - HOSTFS_SECTOR_MAGIC + 1
Tombstoned ==
  /\ SlotsOf(hostfs, Deleted) # {} => TombSlot = MinOf(SlotsOf(hostfs, Deleted))
  /\ hostfs'.names[TombSlot] = NameDel
  /\ StartsWith(hostfs'.full[TombSlot], NameDel \o << "~" >> \o Deleted)
  /\ ~FileExists(hdir, hostfs'.full[TombSlot])
  /\ FileExists(hdir', hostfs'.full[TombSlot])
  /\ ~FileExists(hdir', PathOf(hostfs, Deleted))
SearchAfter == hostfs_search_file(hostfs', hdir', Deleted).sector
\* a Read of the first word through the returned sector brings in the file's bytes
StillReadable ==
  /\ FileData(hdir', hostfs'.full[TombSlot]) = FileData(hdir, PathOf(hostfs, Deleted))
  /\ \A a \in Buffers :
       read_buf(hostfs', hdir', risc, fsop'.sector, 0, 4, a)
         = {[risc  |-> copy_in(risc, a, SubSeq(FileData(hdir, PathOf(hostfs, Deleted)), 1,
                                               IF Len(FileData(hdir, PathOf(hostfs, Deleted))) < 4
                                               THEN Len(FileData(hdir, PathOf(hostfs, Deleted)))
                                               ELSE 4)),
             alive |-> TRUE]}
Absent == SlotsOf(hostfs, Deleted) = {} /\ ~FileExists(hdir, Deleted)
NothingChanged == hostfs' = hostfs /\ hdir' = hdir

C30_ReadAfterDelete ==
  /\ fsop.op = 7 /\ fsop.slot = NameDel /\ ~fsop.failed
  /\ RamAt(risc, 1024) = Mk(17459, 8721) /\ ~FileExists(hdir, NameAa)
\* a Delete of a name that is neither in the table nor in the directory
C30_AbsentName ==
  /\ fsop.op = 5 /\ fsop.sector = 0 /\ fsop.name = NameAa /\ ~FileExists(hdir, NameAa)
  /\ SlotsOf(hostfs, NameAa) = {}

(***************************************************************************)
(* Branches                                                                *)
(***************************************************************************)
IsBranch(ir) == pbit(ir) /\ qbit(ir)
CondOf(ir)   == (Hi(ir) \div 256) % 8
Negated(ir)  == (Hi(ir) \div 2048) % 2 = 1
\* the condition a branch tests, read from the flags of the machine
CondHolds(r, ir) ==
  CASE CondOf(ir) = 0 -> r.N
    [] CondOf(ir) = 1 -> r.Z
    [] CondOf(ir) = 2 -> r.C
    [] CondOf(ir) = 3 -> r.V
    [] CondOf(ir) = 4 -> r.C \/ r.Z
    [] CondOf(ir) = 5 -> r.N # r.V
    [] CondOf(ir) = 6 -> (r.N # r.V) \/ r.Z
    [] CondOf(ir) = 7 -> TRUE
\* the instruction acts as IRET, STI or CLI
SpecialBranch(r, ir) == CondOf(ir) = 7 /\ (IsIret(r, ir) \/ IsStiCli(ir))
BranchStep  == Stepped /\ IsBranch(last.ir) /\ ~SpecialBranch(Entered, last.ir)
Jumps       == CondHolds(Entered, last.ir) # Negated(last.ir)
\* the word index of the instruction that follows the branch
Following   == Fetched.PC
\* the registers as the jump reads them: after the link is written
LinkedR     == IF vbit(last.ir) THEN [Fetched.R EXCEPT ![15] = Shl(Following, 2)]
               ELSE Fetched.R

\* C31: a taken branch with v=1 sets R[15] to 4 times the word index of the
\* instruction that follows the branch; it goes to R[c]/4 when u=0 and to the
\* following word index plus the sign-extended 24-bit offset when u=1; a branch
\* that is not taken, and is not IRET, STI or CLI, changes only PC, by one.
C31_Branch ==
  BranchStep =>
    IF Jumps
    THEN /\ vbit(last.ir) => risc.R[15] = Shl(Following, 2)
         /\ ~ubit(last.ir) => risc.PC = Shr(LinkedR[RegC(last.ir)], 2)
         /\ ubit(last.ir) => risc.PC = Add32(Following, BranchOff(last.ir))
    ELSE risc = Fetched
\* a linking branch by a negative offset was taken
C31_Witness ==
  /\ BranchStep /\ Jumps /\ vbit(last.ir) /\ ubit(last.ir) /\ BranchOff(last.ir) < 0
  /\ risc.PC = Following - 1 /\ risc.R[15] = 4 * Following
\* a linking branch to the link register goes to the following instruction
C31_LinkThenJump ==
  /\ BranchStep /\ Jumps /\ vbit(last.ir) /\ ~ubit(last.ir) /\ RegC(last.ir) = 15
  /\ risc.PC = Following
\* a branch whose condition fails
C31_NotTaken ==
  /\ BranchStep /\ ~Jumps /\ CondOf(last.ir) # 7 /\ risc.PC = Entered.PC + 1
\* a branch to a register that holds an unaligned address
C31_RegisterTarget ==
  /\ BranchStep /\ Jumps /\ ~ubit(last.ir) /\ RegC(last.ir) = 3
  /\ Entered.R[3] = 43 /\ risc.PC = 10

(***************************************************************************)
(* Sector numbers                                                          *)
(***************************************************************************)
\* the requests that write a sector number into the request block
HandsSector == fsop.op \in {0, 1, 2, 5, 6}
SlotNumber  == fsop.sector - HOSTFS_SECTOR_MAGIC
GapSlots(h) == {i \in 0 .. Len(h.names) - 1 : i % 29 = 0}

\* C32: every non-zero sector number the bridge hands to the guest is
\* SECTOR_MAGIC + k with 1 <= k < 4096 and k not a multiple of 29, and slot 0
\* and every 29th slot of the table are never assigned.
C32_SectorNumbers ==
  /\ (HandsSector /\ fsop.sector # 0) =>
        /\ 1 <= SlotNumber /\ SlotNumber < MAX_HOSTFS_FILES
        /\ SlotNumber % 29 # 0
  /\ \A i \in GapSlots(hostfs) : hostfs.names[i + 1] = Null
\* a lookup on a table of 29 slots got slot 30: slot 29 was passed over
C32_Witness ==
  /\ fsop.op = 0 /\ fsop.sector = HOSTFS_SECTOR_MAGIC + 30
  /\ Len(hostfs.names) = 31 /\ hostfs.names[30] = Null /\ hostfs.names[31] = fsop.name
\* the last slot there is, handed out by a lookup
C32_LastSlot ==
  /\ fsop.op = 0 /\ SlotNumber = MAX_HOSTFS_FILES - 2
  /\ Len(hostfs.names) = MAX_HOSTFS_FILES - 1
\* a new file got the slot after a gap
C32_NewAfterGap ==
  /\ fsop.op = 6 /\ SlotNumber = 59 /\ hostfs.names[59] = Null

(***************************************************************************)
(* Byte stores                                                             *)
(***************************************************************************)
ByteOf(w, k)  == U8(Shr(w, 8 * k))
ByteAddr      == MemAddress(Entered, last.ir)
ByteStoreStep == Stepped /\ IsStore(last.ir) /\ vbit(last.ir)
                   /\ ULt(ByteAddr, Entered.mem_size)
RamWords      == DOMAIN risc.RAM \cup DOMAIN last.pre.RAM \cup {Shr(ByteAddr, 2)}

\* C33: a byte store to a RAM address changes only the addressed byte: the
\* other three bytes of its word and every other RAM word keep their values,
\* at each of the four byte positions, below and inside the framebuffer.
C33_ByteStoreFrame ==
  ByteStoreStep =>
    /\ \A i \in RamWords :
          i # Shr(ByteAddr, 2) => RamAt(risc, i) = RamAt(last.pre, i)
    /\ \A k \in 0 .. 3 :
          k # ByteAddr % 4 =>
            ByteOf(RamAt(risc, Shr(ByteAddr, 2)), k)
              = ByteOf(RamAt(last.pre, Shr(ByteAddr, 2)), k)
\* the word held four different bytes and the store changed the one at the address
StoredAt(k) ==
  /\ ByteStoreStep /\ ByteAddr % 4 = k
  /\ RamAt(last.pre, Shr(ByteAddr, 2)) = Mk(4386, 33604)
  /\ ByteOf(RamAt(risc, Shr(ByteAddr, 2)), k) = 128
C33_Witness     == StoredAt(0) /\ ULt(ByteAddr, Entered.display_start)
C33_Byte1       == StoredAt(1) /\ ULt(ByteAddr, Entered.display_start)
C33_Byte2       == StoredAt(2) /\ ~ULt(ByteAddr, Entered.display_start)
C33_Framebuffer == StoredAt(3) /\ ~ULt(ByteAddr, Entered.display_start)

(***************************************************************************)
(* The buffers of the disk                                                 *)
(***************************************************************************)
RxIndexes == 0 .. SectorWords - 1          \* uint32_t rx_buf[128]
TxIndexes == 0 .. TxWords - 1              \* uint32_t tx_buf[128+2]
SpiValues == {0, 81, 88, 254, 255}
\* the write of this value stores into rx_buf[rx_idx]
StoresWord(d, value) ==
  \/ d.state = "Command" /\ (U8(value) # 255 \/ d.rx_idx # 0)
  \/ d.state = "Writing" /\ d.rx_idx < 128
\* disk_read indexes tx_buf
ReadsWord(d) == d.tx_idx >= 0 /\ d.tx_idx < d.tx_cnt

\* C34: rx_idx is within 0..5 in the Command phase and within 0..129 in the
\* Writing phase, a write stores into rx_buf at an index of 0..127 only, tx_cnt
\* is 0, 1 or 130, and disk_read returns tx_buf[tx_idx] only when
\* 0 <= tx_idx < tx_cnt <= 130 and 255 otherwise: no access is outside
\* rx_buf[128] or tx_buf[130].
C34_BufferSafety ==
  /\ disk.state = "Command" => disk.rx_idx \in 0 .. 5
  /\ disk.state = "Writing" => disk.rx_idx \in 0 .. 129
  /\ \A value \in SpiValues : StoresWord(disk, value) => disk.rx_idx \in RxIndexes
  /\ disk.tx_cnt \in {0, 1, 130}
  /\ DOMAIN disk.rx_buf = RxIndexes /\ DOMAIN disk.tx_buf = TxIndexes
  /\ IF ReadsWord(disk)
     THEN disk.tx_idx \in TxIndexes /\ disk_read(disk) = disk.tx_buf[disk.tx_idx]
     ELSE disk_read(disk) = 255
\* the second CRC word of a block is about to arrive: rx_idx is past the buffer
C34_Witness ==
  /\ disk.state = "Writing" /\ disk.rx_idx = 129 /\ ~StoresWord(disk, 0)
\* the last word of a read response is on offer
C34_LastWordRead ==
  /\ disk.state = "Read" /\ disk.tx_idx = 129 /\ disk.tx_cnt = 130 /\ ReadsWord(disk)
\* the master clocks past the one-word response of a command
C34_PastResponse ==
  /\ disk.state = "Command" /\ disk.tx_cnt = 1 /\ disk.tx_idx >= 1 /\ disk_read(disk) = 255
\* the sixth byte of a command is about to arrive
C34_CommandFull ==
  /\ disk.state = "Command" /\ disk.rx_idx = 5 /\ StoresWord(disk, 255)

(***************************************************************************)
(* The span of the current mode                                            *)
(***************************************************************************)
\* C35: in every reachable state current_mode_span is at least 1, after any
\* value written to the mode-switch port, dynamic-size requests included.
C35_SpanPositive == risc.current_mode_span >= 1
\* the span is at least 1 unless the current mode is a dynamic mode of width 0
C35_SpanUnlessNoWidth ==
  \/ risc.current_mode_span >= 1
  \/ /\ risc.screen_dynsize /\ risc.current_mode = risc.dyn_mode_slots[1]
     /\ risc.current_mode.width = 0 /\ risc.current_mode_span = 0
\* a dynamic request of width 0 and height 768 was taken: the damage update
\* of the next framebuffer store divides by a span of 0
C35_ZeroSpan ==
  /\ DynRequest /\ ReqWidth = 0 /\ ReqHeight = 768 /\ ReqMode = 1
  /\ risc.current_mode.height = 768 /\ risc.current_mode_span = 0
\* a dynamic request of 1024 x 768 was taken with span 32
C35_DynamicSpan ==
  /\ DynRequest /\ ReqWidth = 1024 /\ ReqMode = 1 /\ risc.current_mode_span = 32

(***************************************************************************)
(* The size of the enumerator's reply                                      *)
(***************************************************************************)
EnumStore  == Stepped /\ IsStore(last.ir) /\ ~vbit(last.ir) /\ AccessAddr = IOStart + 60
ReplyWords == Len(risc.hwenum_buf)         \* hwenum_cnt

\* C36: for every request tag, every combination of installed peripherals and
\* every installed mode list the reply has at most 24 words: hwenum_cnt never
\* exceeds the capacity of hwenum_buf.
C36_ReplyFits == ReplyWords <= HwEnumWords
\* the reply fits when no depth has more than five modes
C36_FitsUpToFiveModes ==
  (\A d \in 1 .. 3 : risc.modes_by_depth[d] <= 5) => ReplyWords <= HwEnumWords
\* six 1-bit modes: the reply to mVid has 26 words
C36_Overflow ==
  /\ EnumStore /\ Requested = HW_ENUM_ID("m", "V", "i", "d")
  /\ risc.modes_by_depth[1] = 6 /\ ReplyWords = 26
\* the list of devices with everything installed has 20 words
C36_LongestDeviceList ==
  /\ EnumStore /\ Requested = 0 /\ risc.screen_dynsize /\ ReplyWords = 20
\* five 8-bit modes: the reply to 8bcV fills the buffer
C36_BufferFilled ==
  /\ EnumStore /\ Requested = HW_ENUM_ID("8", "b", "c", "V")
  /\ risc.modes_by_depth[3] = 5 /\ ReplyWords = HwEnumWords

(***************************************************************************)
(* The bridge's accesses to guest RAM                                      *)
(***************************************************************************)
BlockServed  == last.op = "hostfs"
TouchedWords == hostfs_touched(hostfs, hdir, last.pre, last.ir)
InRam(i)     == i < RamWordCount(last.pre)
AskedBlock   == BlockAt(last.pre, last.ir)
BlockInRam   == InRam(Shr(last.ir, 2) + 4)
BufferInRam  ==
  /\ ULt(AskedBlock.address, last.pre.mem_size)
  /\ AskedBlock.address + AskedBlock.size <= last.pre.mem_size

\* C37: for every value written to the host-FS port and every content of guest
\* RAM, all RAM words the bridge reads or writes (the request block at value/4
\* and the data buffer of Read and Write) lie inside the RAM array.
C37_AccessInsideRam == BlockServed => \A i \in TouchedWords : InRam(i)
\* the accesses are inside the array when the guest's block and buffer are
C37_InsideWhenGuestInside ==
  (BlockServed /\ BlockInRam /\ BufferInRam) =>
    /\ \A i \in TouchedWords : InRam(i)
    /\ \A i \in DOMAIN risc.RAM : InRam(i)
\* the value stored is mem_size: the operation word is read past the array
C37_BlockOutside ==
  /\ BlockServed /\ last.ir = last.pre.mem_size
  /\ Shr(last.ir, 2) \in TouchedWords /\ ~InRam(Shr(last.ir, 2))
\* six bytes read to the last word of RAM: two bytes land past the array
C37_BufferOutside ==
  /\ BlockServed /\ BlockInRam /\ AskedBlock.op = 7
  /\ AskedBlock.address = last.pre.mem_size - 4 /\ AskedBlock.size = 6
  /\ RamWordCount(last.pre) \in DOMAIN risc.RAM
  /\ RamWordCount(last.pre) \notin DOMAIN last.pre.RAM
\* a request whose block and buffer are in RAM was served
C37_ServedInside ==
  /\ BlockServed /\ BlockInRam /\ BufferInRam /\ AskedBlock.op = 7
  /\ RamAt(risc, 1024) = Mk(17459, 8721) /\ fsop.alive

(***************************************************************************)
(* The pending flag                                                        *)
(***************************************************************************)
TriggerMade == last'.op = "trigger" /\ last'.pre = risc
StepTaken   == nsteps' = nsteps + 1
\* the interrupt is due at the head of the next step
Due         == risc.P /\ risc.E /\ ~risc.I
\* the step executes IRET in interrupt mode (the mode as it is after the entry test)
IretRuns    ==
  /\ StepTaken /\ last'.ok /\ IsBranch(last'.ir) /\ CondOf(last'.ir) = 7
  /\ IsIret([risc EXCEPT !.I = risc.I \/ Due], last'.ir)
ShadowOf(r) == << r.SPC, r.SZ, r.SN, r.SC, r.SV >>

\* C38: P is a one-bit latch cleared only by IRET: a trigger sets it and
\* changes nothing when it is already set (as it is all through the handler);
\* a step takes the interrupt exactly when P and E are set and I is clear at
\* its head, so a trigger issued while E is clear waits for that step; IRET
\* clears P and with it every trigger that arrived since the entry.
C38_PendingLatch ==
  [][ /\ (risc.P /\ ~risc'.P) => IretRuns
      /\ IretRuns => ~risc'.P /\ ~risc'.I
      /\ TriggerMade => risc' = [risc EXCEPT !.P = TRUE]
      /\ (risc.I /\ ~IretRuns) => risc.P /\ risc'.P /\ risc'.I
      /\ (StepTaken /\ Due) =>
            /\ last'.ir = RamAt(risc, 1)
            /\ ShadowOf(risc') = << risc.PC, risc.Z, risc.N, risc.C, risc.V >>
            /\ risc'.I \/ IretRuns
      /\ (StepTaken /\ ~Due) =>
            /\ ShadowOf(risc') = ShadowOf(risc)
            /\ risc'.I = (risc.I /\ ~IretRuns)
            /\ last'.ok => last'.ir = fetch(risc).ir
    ]_vars
\* the interrupt that was pending through STI is taken at the step after it
C38_Witness ==
  /\ Stepped /\ nsteps = 2 /\ RamAt(risc, ProgBase) = InsSTI
  /\ last.pre.P /\ last.pre.E /\ ~last.pre.I /\ last.pre.PC = ProgBase + 1
  /\ risc.I /\ risc.P /\ risc.SPC = ProgBase + 1
\* a trigger while the handler runs changes nothing
C38_Coalesced ==
  /\ last.op = "trigger" /\ last.pre.I /\ last.pre.P /\ risc = last.pre
\* the IRET of the handler cleared P
C38_DroppedAtIret ==
  /\ Stepped /\ nsteps = 3 /\ last.pre.I /\ last.pre.P /\ last.ir = InsIRET
  /\ ~risc.P /\ ~risc.I
\* a trigger while E is clear: P is set and the next step does not take it
C38_PendingWhileDisabled ==
  /\ Stepped /\ last.pre.P /\ ~last.pre.E /\ ~last.pre.I
  /\ risc.P /\ ~risc.I /\ ~risc.E /\ risc.SPC = 0

(***************************************************************************)
(* The end of a read response                                              *)
(***************************************************************************)
\* the 130th word of the response is the one disk_read returns
LastWordOut == disk.tx_cnt = TxWords /\ disk.tx_idx = TxWords - 1

\* C39: after the 130th word of a read response has been delivered the disk is
\* still in the Read phase; the next written byte, whatever its value, only
\* switches the phase back to Command and is not accumulated as a command
\* byte, so a command is recognised from the second byte on.
C39_ReadEnds ==
  [][ /\ LastWordOut => disk.state = "Read" /\ disk_read(disk) = disk.tx_buf[TxWords - 1]
      /\ (Wrote /\ LastWordOut) =>
            disk' = [disk EXCEPT !.state = "Command", !.tx_cnt = 0, !.tx_idx = 0]
      /\ (Wrote /\ Len(queue) = 6 /\ sending.lead # -1) =>
            /\ disk'.rx_buf[0] = sending.cmd /\ disk'.rx_idx = 1
            /\ disk'.state = "Command"
    ]_vars
\* the byte 88 written after the last word has ended the Read phase and left
\* rx_buf and rx_idx alone
C39_Witness ==
  /\ sending.lead = 88 /\ Len(queue) = 6 /\ nwr = TxWords + 1
  /\ disk.state = "Command" /\ disk.rx_idx = 0 /\ disk.rx_buf[0] = 81
  /\ disk.tx_cnt = 0 /\ disk.tx_idx = 0
\* the byte after it is the first byte of the command
C39_SecondByteStarts ==
  /\ sending.lead = 88 /\ sending.cmd = 0 /\ Len(queue) = 5 /\ nwr = TxWords + 2
  /\ disk.state = "Command" /\ disk.rx_idx = 1 /\ disk.rx_buf[0] = 0
\* the command sent behind the lead byte has run
C39_CommandAfterLead ==
  /\ sending = NoSend /\ lastCmd.cmd = 88 /\ nwr = 0 /\ disk.state = "Write"
  /\ disk.rx_buf[0] = 88 /\ ncmd = 2 /\ disk.rx_buf[5] = 0 /\ lastCmd.arg = 0

(***************************************************************************)
(* The reset (checked under SpecReset)                                     *)
(***************************************************************************)
ResetMade  == last'.op = "reset" /\ last'.pre = risc
BadFetch   == StepTaken /\ ~last'.ok
AtReset(r) == [r EXCEPT !.PC = Shr(ROMStart, 2)]

\* C40: risc_reset, and the soft reset a step takes on a bad fetch, change only
\* PC: the registers, H, the flags, I, E, P, SPC and the shadow flags, RAM, the
\* key buffer, the damage rectangle and the SPI selection stay as they are; so
\* after a reset taken while I is set no step enters the interrupt until an
\* IRET has run.
C40_ResetFrame ==
  [][ /\ ResetMade => risc' = AtReset(risc)
      /\ BadFetch  => risc' = AtReset(risc)
      /\ (ResetMade \/ BadFetch) =>
            /\ risc'.R = risc.R /\ risc'.H = risc.H
            /\ << risc'.Z, risc'.N, risc'.C, risc'.V >> = << risc.Z, risc.N, risc.C, risc.V >>
            /\ << risc'.I, risc'.E, risc'.P >> = << risc.I, risc.E, risc.P >>
            /\ ShadowOf(risc') = ShadowOf(risc)
            /\ risc'.RAM = risc.RAM /\ risc'.key_buf = risc.key_buf
            /\ risc'.damage = risc.damage /\ risc'.spi_selected = risc.spi_selected
      /\ (risc.I /\ ~IretRuns) =>
            /\ risc'.I /\ ShadowOf(risc') = ShadowOf(risc) /\ entry' = entry
            /\ StepTaken => last'.ir = fetch(risc).ir /\ last'.ok = fetch(risc).ok
    ]_vars
\* the reset key pressed inside the handler, with the interrupt pending and
\* enabled: only PC has moved
C40_Witness ==
  /\ last.op = "reset" /\ last.pre.I /\ last.pre.P /\ last.pre.E
  /\ last.pre.PC = 2 /\ risc.PC = Shr(ROMStart, 2)
  /\ risc = AtReset(last.pre)
  /\ risc.I /\ risc.R[1] = 5 /\ risc.H = 7 /\ risc.key_buf = << 28 >>
  /\ risc.spi_selected = 1 /\ risc.damage.x1 = 1 /\ risc.SPC = ProgBase
\* the handler has branched below the ROM and the next step has reset the machine
C40_SoftReset ==
  /\ last.op = "step" /\ ~last.ok /\ last.pre.I /\ last.pre.P /\ last.pre.E
  /\ last.pre.PC = Shr(ROMStart - 4, 2)
  /\ risc = AtReset(last.pre) /\ risc.I /\ risc.key_buf = << 28 >>
\* the step after the reset runs the first word of the ROM although the
\* interrupt is pending and enabled
C40_EntryBlocked ==
  /\ Stepped /\ last.pre.PC = Shr(ROMStart, 2) /\ last.pre.I /\ last.pre.P /\ last.pre.E
  /\ last.ir = RomAt(risc, 0) /\ risc.PC = Shr(ROMStart, 2) + 1
  /\ risc.I /\ risc.SPC = ProgBase
\* the boot loader has branched to word 0 and the IRET there has left interrupt mode
C40_IretAfterReset ==
  /\ Stepped /\ nsteps = 3 /\ last.pre.PC = 0 /\ last.ir = InsIRET /\ last.pre.I
  /\ ~risc.I /\ ~risc.P /\ risc.PC = ProgBase

====
